---- MODULE Spec2Model ----
EXTENDS Integers, Sequences, FiniteSets, TLC

\* ---------------------------------------------------------------------------
\* JSON values as Python sees them after json.loads: None, bool, int, str.
\* A value keeps its type, so that 2 and "2" are different values.
\* ---------------------------------------------------------------------------
Null == [t |-> "null", n |-> 0, s |-> ""]
Num(i) == [t |-> "num", n |-> i, s |-> ""]
Str(x) == [t |-> "str", n |-> 0, s |-> x]
Bool(b) == [t |-> "bool", n |-> IF b THEN 1 ELSE 0, s |-> ""]

\* Python truthiness of a value (None, 0, "" and False are falsy).
Truthy(v) ==
    \/ v.t \in {"num", "bool"} /\ v.n # 0
    \/ v.t = "str" /\ v.s # ""

\* Python's a == b: numbers compare by value, a str never equals a number.
PyEq(a, b) ==
    IF a.t \in {"num", "bool"} /\ b.t \in {"num", "bool"} THEN a.n = b.n
    ELSE a = b

\* Python's "a or b".
PyOr(a, b) == IF Truthy(a) THEN a ELSE b

\* The decimal strings the model uses, with their values.
DigitStrs == {"0", "1", "2"}

StrToInt(x) == CASE x = "0" -> 0 [] x = "1" -> 1 [] x = "2" -> 2 [] OTHER -> 0

IntToStr(i) == CASE i = 0 -> "0" [] i = 1 -> "1" [] i = 2 -> "2" [] OTHER -> "?"

\* int(v): defined for numbers and decimal strings, ValueError otherwise.
IntOk(v) == v.t \in {"num", "bool"} \/ (v.t = "str" /\ v.s \in DigitStrs)

IntOf(v) == IF v.t = "str" THEN StrToInt(v.s) ELSE v.n

\* str(v)
StrOf(v) == IF v.t = "str" THEN v.s ELSE IF v.t = "num" THEN IntToStr(v.n) ELSE "None"

\* str(v).isdigit()
IsDigit(v) == (v.t = "num" /\ v.n >= 0) \/ (v.t = "str" /\ v.s \in DigitStrs)

\* ---------------------------------------------------------------------------
\* The compositor: two outputs, two virtual desktops, the windows w1 and w2.
\* ---------------------------------------------------------------------------
OutputNames == <<"DP-1", "DP-2">>

DesktopNames == <<"1", "2">>

WinIds == <<"w1", "w2">>

\* The position of an output in the compositor's own output list.
OutputObj(name) ==
    [name |-> name, model |-> "",
     geometry |-> [x |-> Num(IF name = "DP-1" THEN 0 ELSE 1920), y |-> Num(0),
                   width |-> Num(1920), height |-> Num(1080)]]

\* Python's string order on the handles of the model.
StrRank(x) == CASE x = "" -> 0 [] x = "w1" -> 1 [] x = "w2" -> 2 [] OTHER -> 3

VARIABLES
    world,      \* compositor state: WinIds -> [present, out, pinned, fs]
    conn,       \* the connection: "open" or "closed"
    rpc,        \* where the receive activity is
    msg,        \* the inbound message read last
    cmd,        \* the command being dispatched
    todo,       \* the steps left of the dispatch's current synchronous stretch
    loc,        \* handle_command's locals (MoveWindow)
    log,        \* what the dispatch of the current command did, in order
    death,      \* why the receive activity ended ("" while it runs)
    ppc,        \* where the push activity is
    payload,    \* the push activity's snapshot of the current poll
    last_payload_key,   \* the last-sent marker
    clock,      \* wall clock, in ticks of the timestamp's resolution
    poll,       \* what the push activity's polls did (for the poll claims)
    coll,       \* collect_kwin_lines: its locals, its reads so far, its outcome
    exe,        \* one run of a program in the compositor: its calls and its file
    fn,         \* a function of the program applied to an input: input and result
    jrn         \* the journal of the compositor's unit and the acquisitions reading it

vars == <<world, conn, rpc, msg, cmd, todo, loc, log, death, ppc, payload, last_payload_key, clock, poll, coll, exe, fn, jrn>>

\* The variables of the parts of the program that are checked on their own.
CallVars == <<coll, exe, fn, jrn>>

\* ---------------------------------------------------------------------------
\* Snapshot builder (pure functions over a meta record and a window list).
\* meta = [outputs, desktops, activeDesktopName]; an empty meta has empty lists.
\* A window record carries the fields the program prints for each window; a
\* handle or name that is null or missing is "".
\* ---------------------------------------------------------------------------
RECURSIVE SelectSeqIdx(_, _, _)
\* The subsequence of s at the indices in keep, in order.
SelectSeqIdx(s, keep, i) ==
    IF i > Len(s) THEN <<>>
    ELSE (IF i \in keep THEN <<s[i]>> ELSE <<>>) \o SelectSeqIdx(s, keep, i + 1)

InSeq(x, s) == \E i \in 1..Len(s) : s[i] = x

RECURSIVE LStrip(_, _)
\* str.lstrip(chars): drop leading characters while they are in chars.
LStrip(cs, chars) ==
    IF cs # <<>> /\ Head(cs) \in chars THEN LStrip(Tail(cs), chars) ELSE cs

RECURSIVE RStrip(_, _)
\* str.rstrip(chars): drop trailing characters while they are in chars.
RStrip(cs, chars) ==
    IF cs # <<>> /\ cs[Len(cs)] \in chars THEN RStrip(SubSeq(cs, 1, Len(cs) - 1), chars)
    ELSE cs

\* format_monitor_name: "model [name]" when both are set, else whichever is set.
format_monitor_name(out) ==
    IF out.model # "" /\ out.name # "" THEN <<out.model, "[", out.name, "]">>
    ELSE IF out.model # "" THEN <<out.model>> ELSE <<out.name>>

\* The sort key of build_desktop_windows: (pid is None, pid or 0, windowId or "").
WinKeyLess(a, b) ==
    LET an == IF a.pid.t = "null" THEN 1 ELSE 0
        bn == IF b.pid.t = "null" THEN 1 ELSE 0
        ap == IF Truthy(a.pid) THEN a.pid.n ELSE 0
        bp == IF Truthy(b.pid) THEN b.pid.n ELSE 0
    IN  \/ an < bn
        \/ an = bn /\ ap < bp
        \/ an = bn /\ ap = bp /\ StrRank(a.windowId) < StrRank(b.windowId)

RECURSIVE SortWins(_)
\* list.sort: stable, ascending by WinKeyLess (insertion from the left).
SortWins(ws) ==
    IF Len(ws) <= 1 THEN ws
    ELSE LET front == SortWins(SubSeq(ws, 1, Len(ws) - 1))
             w == ws[Len(ws)]
             c == Cardinality({i \in 1..Len(front) : ~WinKeyLess(w, front[i])})
         IN  SubSeq(front, 1, c) \o <<w>> \o SubSeq(front, c + 1, Len(front))

\* A variant of UniqueWins below that keeps the last record of each handle.
UniqueWins_KeepLast(ws) ==
    SelectSeqIdx(ws, {i \in 1..Len(ws) :
                        /\ ws[i].windowId # ""
                        /\ \A j \in (i + 1)..Len(ws) : ws[j].windowId # ws[i].windowId}, 1)

\* Lines 873-881: drop records without a handle, keep the first record of each handle.
UniqueWins(ws) ==
    SelectSeqIdx(ws, {i \in 1..Len(ws) :
                        /\ ws[i].windowId # ""
                        /\ \A j \in 1..(i - 1) : ws[j].windowId # ws[i].windowId}, 1)

WindowView(w) ==
    [id |-> w.windowId, title |-> w.appName, pid |-> w.pid, caption |-> w.caption,
     on_all_desktops |-> w.onAllDesktops, minimized |-> w.minimized,
     maximized |-> w.maximized, fullScreen |-> w.fullScreen,
     appExec |-> w.appExec, active |-> w.active]

\* A variant of OnDesktop below that takes a pinned window to be on the first
\* desktop only.
OnDesktop_PinnedOnFirst(w, dname) ==
    (w.onAllDesktops /\ dname = "1") \/ InSeq(dname, w.desktops)

\* Lines 867-872: the record is pinned, or lists the desktop.
OnDesktop(w, dname) == w.onAllDesktops \/ InSeq(dname, w.desktops)

build_desktop(dname, windows, active_name) ==
    LET wins == SelectSeqIdx(windows, {i \in 1..Len(windows) :
                                          OnDesktop(windows[i], dname)}, 1)
        sorted == SortWins(UniqueWins(wins))
    IN  [desktop_name |-> dname,
         desktop_is_active |-> IF active_name # "" THEN active_name = dname ELSE FALSE,
         windows |-> [i \in 1..Len(sorted) |-> WindowView(sorted[i])]]

build_desktop_windows(desktop_names, windows, active_name) ==
    [k \in 1..Len(desktop_names) |-> build_desktop(desktop_names[k], windows, active_name)]

RECURSIVE DistinctNames(_, _)
\* Names in first-seen order, without repeats.
DistinctNames(names, seen) ==
    IF names = <<>> THEN <<>>
    ELSE IF Head(names) \in seen THEN DistinctNames(Tail(names), seen)
    ELSE <<Head(names)>> \o DistinctNames(Tail(names), seen \cup {Head(names)})

RECURSIVE Flatten(_)
Flatten(ss) == IF ss = <<>> THEN <<>> ELSE Head(ss) \o Flatten(Tail(ss))

collect_desktop_names(meta, windows) ==
    IF meta.desktops # <<>> THEN meta.desktops
    ELSE DistinctNames(Flatten([i \in 1..Len(windows) |-> windows[i].desktops]), {"ALL"})

collect_outputs(meta, windows) ==
    IF meta.outputs # <<>> THEN meta.outputs
    ELSE LET named == SelectSeqIdx(windows, {i \in 1..Len(windows) :
                          /\ windows[i].output.name # ""
                          /\ \A j \in 1..(i - 1) :
                                windows[j].output.name # windows[i].output.name}, 1)
         IN  [i \in 1..Len(named) |-> named[i].output]

\* A variant of OutKeyLess below that compares (x, y).
OutKeyLess_XFirst(a, b) ==
    LET ay == IF a.geometry.y.t = "num" THEN a.geometry.y.n ELSE 0
        by == IF b.geometry.y.t = "num" THEN b.geometry.y.n ELSE 0
        ax == IF a.geometry.x.t = "num" THEN a.geometry.x.n ELSE 0
        bx == IF b.geometry.x.t = "num" THEN b.geometry.x.n ELSE 0
    IN  ax < bx \/ (ax = bx /\ ay < by)

\* key_fn of sort_outputs_by_geometry: (y, x), a coordinate that is no int counts 0.
OutKeyLess(a, b) ==
    LET ay == IF a.geometry.y.t = "num" THEN a.geometry.y.n ELSE 0
        by == IF b.geometry.y.t = "num" THEN b.geometry.y.n ELSE 0
        ax == IF a.geometry.x.t = "num" THEN a.geometry.x.n ELSE 0
        bx == IF b.geometry.x.t = "num" THEN b.geometry.x.n ELSE 0
    IN  ay < by \/ (ay = by /\ ax < bx)

RECURSIVE sort_outputs_by_geometry(_)
sort_outputs_by_geometry(outs) ==
    IF Len(outs) <= 1 THEN outs
    ELSE LET front == sort_outputs_by_geometry(SubSeq(outs, 1, Len(outs) - 1))
             o == outs[Len(outs)]
             c == Cardinality({i \in 1..Len(front) : ~OutKeyLess(o, front[i])})
         IN  SubSeq(front, 1, c) \o <<o>> \o SubSeq(front, c + 1, Len(front))

\* Line 961: all(w.get("onAllDesktops") for w in wins); all() of nothing is True.
MonitorAllPinned(wins) == \A i \in 1..Len(wins) : wins[i].onAllDesktops

build_monitors(meta, windows) ==
    LET outputs == sort_outputs_by_geometry(collect_outputs(meta, windows))
        desktop_names == collect_desktop_names(meta, windows)
        mon(idx) ==
            LET out == outputs[idx]
                wins == SelectSeqIdx(windows, {i \in 1..Len(windows) :
                            windows[i].output.name = out.name}, 1)
            IN  [monitor_id |-> idx,
                 monitor_name |-> format_monitor_name(out),
                 monitor_x |-> out.geometry.x, monitor_y |-> out.geometry.y,
                 monitor_width |-> out.geometry.width,
                 monitor_height |-> out.geometry.height,
                 reserved_bottom |-> 48,
                 on_all_desktops |-> MonitorAllPinned(wins),
                 desktops |-> build_desktop_windows(desktop_names, wins,
                                                    meta.activeDesktopName)]
    IN  [idx \in 1..Len(outputs) |-> mon(idx)]

build_payload(service, ts, meta, windows) ==
    [service |-> service, timestamp |-> ts, monitors |-> build_monitors(meta, windows)]

\* json.dumps(payload, sort_keys=True, separators=(",", ":")): the fields in key order.
PayloadKey(p) == <<p.monitors, p.service, p.timestamp>>

\* ---------------------------------------------------------------------------
\* Lookups in a built snapshot (lines 122-163). window_id and monitor_id are the
\* JSON values of the command; the comparisons are Python's ==.
\* ---------------------------------------------------------------------------
\* Every window entry of the snapshot in iteration order (monitor, desktop, window).
SnapshotEntries(monitors) ==
    Flatten([mi \in 1..Len(monitors) |->
        Flatten([di \in 1..Len(monitors[mi].desktops) |->
            [wi \in 1..Len(monitors[mi].desktops[di].windows) |->
                [monitor_id |-> monitors[mi].monitor_id,
                 win |-> monitors[mi].desktops[di].windows[wi]]]])])

FirstEntry(monitors, window_id) ==
    LET es == SnapshotEntries(monitors)
        hits == {i \in 1..Len(es) : PyEq(Str(es[i].win.id), window_id)}
    IN  IF hits = {} THEN <<>>
        ELSE <<es[CHOOSE i \in hits : \A j \in hits : i <= j]>>

find_window_fullscreen(monitors, window_id) ==
    LET e == FirstEntry(monitors, window_id)
    IN  IF e = <<>> THEN FALSE ELSE e[1].win.fullScreen

find_window_monitor(monitors, window_id) ==
    LET e == FirstEntry(monitors, window_id)
    IN  IF e = <<>> THEN Null ELSE Num(e[1].monitor_id)

find_window_pinned(monitors, window_id) ==
    LET e == FirstEntry(monitors, window_id)
    IN  IF e = <<>> THEN Null ELSE Bool(e[1].win.on_all_desktops)

\* Line 153: mid == monitor_id compares the monitor's int id with the command's value.
MonitorIdMatches(mid, monitor_id) == PyEq(Num(mid), monitor_id)

is_monitor_all_pinned(monitors, monitor_id) ==
    IF monitor_id.t = "null" THEN FALSE
    ELSE LET hits == {i \in 1..Len(monitors) :
                        MonitorIdMatches(monitors[i].monitor_id, monitor_id)}
         IN  IF hits = {} THEN FALSE
             ELSE LET target == monitors[CHOOSE i \in hits : \A j \in hits : i <= j]
                      windows == Flatten([di \in 1..Len(target.desktops) |->
                                            target.desktops[di].windows])
                  IN  /\ windows # <<>>
                      /\ \A i \in 1..Len(windows) : windows[i].on_all_desktops

\* ---------------------------------------------------------------------------
\* The compositor's state and what the injected programs do with it.
\* ---------------------------------------------------------------------------
\* Of a window the model keeps the output it is on, whether it is pinned and whether
\* it is fullscreen; every window that is not pinned is on desktop "1".
WinState == [present : BOOLEAN, out : {"DP-1", "DP-2"}, pinned : BOOLEAN, fs : BOOLEAN]

Closed == [present |-> FALSE, out |-> "DP-1", pinned |-> FALSE, fs |-> FALSE]

\* The window-state program (build_js, lines 283-416): one meta line, then one line
\* per managed window in stacking order.
MetaOf(w) ==
    [outputs |-> [i \in 1..Len(OutputNames) |-> OutputObj(OutputNames[i])],
     desktops |-> DesktopNames, activeDesktopName |-> "1"]

WindowRecord(id, st) ==
    [pid |-> Num(IF id = "w1" THEN 10 ELSE 20), caption |-> id, windowId |-> id,
     internalId |-> id, onAllDesktops |-> st.pinned,
     desktops |-> IF st.pinned THEN <<"ALL">> ELSE <<"1">>,
     output |-> OutputObj(st.out),
     frameGeometry |-> [x |-> (IF st.out = "DP-1" THEN 0 ELSE 1920) + 100, y |-> 100,
                        width |-> 800, height |-> 600],
     minimized |-> FALSE, maximized |-> FALSE,
     fullScreen |-> st.fs, active |-> FALSE, appName |-> "", appExec |-> ""]

WindowsOf(w) ==
    LET ids == SelectSeqIdx(WinIds, {i \in 1..Len(WinIds) : w[WinIds[i]].present}, 1)
    IN  [i \in 1..Len(ids) |-> WindowRecord(ids[i], w[ids[i]])]

\* get_state_snapshot of the compositor state w at clock ts, when no call fails.
SnapshotOf(w, ts) == build_payload("plasma-kwin_wayland.service", ts, MetaOf(w), WindowsOf(w))

\* normId of the action program (lines 439-442) on the handles of the model.
normId(x) == CASE x \in {"W1", "{w1}"} -> "w1" [] x \in {"W2", "{w2}"} -> "w2" [] OTHER -> x

\* build_js_action (lines 418-610): the action program changes every managed window
\* whose handle matches winid. Only what the model keeps of a window is changed.
ActOn(st, action, desktop, monitor) ==
    CASE action = "pin-toggle" -> [st EXCEPT !.pinned = ~st.pinned]
      [] action = "fullscreen" -> [st EXCEPT !.fs = TRUE]
      [] action = "fullscreen-exit" -> [st EXCEPT !.fs = FALSE]
      [] action = "close" -> Closed
      [] action = "move-monitor" ->
            IF monitor \in DigitStrs /\ StrToInt(monitor) \in 1..Len(OutputNames)
            THEN [st EXCEPT !.out = OutputNames[StrToInt(monitor)]]
            ELSE IF InSeq(monitor, OutputNames) THEN [st EXCEPT !.out = monitor]
            ELSE st
      [] OTHER -> st

ApplyAction(w, action, winid, desktop, monitor) ==
    [id \in DOMAIN w |->
        IF w[id].present /\ (~Truthy(winid) \/ normId(id) = normId(StrOf(winid)))
        THEN ActOn(w[id], action, desktop, monitor)
        ELSE w[id]]

\* ---------------------------------------------------------------------------
\* Inbound messages and parse_command_message (lines 1054-1074).
\* kind: "text" (not JSON), "nonobject" (JSON, but no object), "object".
\* pkind: "object", "falsy" (payload missing, null, 0, "", [] ...), or "bad"
\* (a payload that is truthy and no object, such as "x" or [1]).
\* ---------------------------------------------------------------------------
BaseMsg ==
    [kind |-> "object", type |-> Str("command"), pkind |-> "object", name |-> Null,
     windowId |-> Null, id |-> Null, desktopIndex |-> Null, targetMonitor |-> Null,
     targetDesktop |-> Null, exec |-> Null, key |-> Null]

WindowCommandNames ==
    {"CloseEvent", "MinimizeEvent", "MaximizeEvent", "RestoreEvent", "FullscreenEvent",
     "FullscreenExitEvent", "PinToggleEvent"}

KnownCommandNames ==
    WindowCommandNames \cup {"LaunchApp", "KeyEvent", "ActivateWindow", "SwitchDesktop",
                             "MoveWindow"}

MalformedMessages ==
    { [BaseMsg EXCEPT !.kind = "text"],
      [BaseMsg EXCEPT !.kind = "nonobject"],
      [BaseMsg EXCEPT !.pkind = "bad"],
      [BaseMsg EXCEPT !.pkind = "bad", !.type = Null],
      [BaseMsg EXCEPT !.type = Str("state"), !.name = Str("CloseEvent")],
      [BaseMsg EXCEPT !.type = Null, !.pkind = "falsy"],
      [BaseMsg EXCEPT !.type = Null, !.windowId = Str("w1")],
      [BaseMsg EXCEPT !.pkind = "falsy"] }

TargetMonitors == {Null, Num(0), Num(1), Num(2), Str("0"), Str("2"), Str("DP-2")}

CommandMessages ==
    { [BaseMsg EXCEPT !.name = Str(nm), !.windowId = wid] :
        nm \in WindowCommandNames \cup {"ActivateWindow"}, wid \in {Str("w1"), Null} }
    \cup { [BaseMsg EXCEPT !.type = Null, !.name = Str("MinimizeEvent"), !.id = Str("w1")],
           [BaseMsg EXCEPT !.name = Str("RestoreEvent"), !.windowId = Str(""),
                           !.id = Str("w1")],
           [BaseMsg EXCEPT !.name = Str("FooEvent"), !.windowId = Str("w1")],
           [BaseMsg EXCEPT !.name = Str("PinToggleEvent"), !.windowId = Str("w9")] }
    \cup { [BaseMsg EXCEPT !.name = Str("LaunchApp"), !.exec = e] :
            e \in {Null, Str(""), Str("firefox"), Str("firefox %u"),
                   Str("code %F --new-window")} }
    \cup { [BaseMsg EXCEPT !.name = Str("KeyEvent"), !.key = k, !.windowId = wid] :
            k \in {Null, Str("ctrl+a")}, wid \in {Null, Str("w1")} }
    \cup { [BaseMsg EXCEPT !.name = Str("SwitchDesktop"), !.desktopIndex = d] :
            d \in {Null, Num(0), Num(2), Str("2")} }
    \cup { [BaseMsg EXCEPT !.name = Str("MoveWindow"), !.windowId = Str("w1"),
                           !.targetDesktop = Str("2"), !.targetMonitor = tm] :
            tm \in TargetMonitors }
    \cup { [BaseMsg EXCEPT !.name = Str("MoveWindow"), !.windowId = Str("w9"),
                           !.targetDesktop = Num(2), !.targetMonitor = tm] :
            tm \in {Num(2), Str("DP-2")} }
    \cup { [BaseMsg EXCEPT !.name = Str("MoveWindow"), !.windowId = Str("{w1}"),
                           !.targetDesktop = Str("2"), !.targetMonitor = tm] :
            tm \in {Num(1), Num(2)} }
    \cup { [BaseMsg EXCEPT !.name = Str("MoveWindow"), !.windowId = Str("w1")],
           [BaseMsg EXCEPT !.name = Str("MoveWindow"), !.targetDesktop = Str("2")] }

Messages == MalformedMessages \cup CommandMessages

\* json.loads fails: the message is skipped.
ParseIgnores(m) == m.kind = "text"

\* obj.get / payload.get on a value that is no dict raises AttributeError.
ParseRaises(m) == m.kind = "nonobject" \/ (m.kind = "object" /\ m.pkind = "bad")

\* Lines 1060-1064: the discriminator, or a name together with a window handle.
IsCommand(m) ==
    \/ PyEq(m.type, Str("command"))
    \/ Truthy(m.name) /\ (Truthy(m.windowId) \/ Truthy(m.id))

NoCmd ==
    [name |-> Null, window_id |-> Null, desktop_index |-> Null, target_monitor |-> Null,
     target_desktop |-> Null, exec_cmd |-> Null, key |-> Null]

parse_command_message(m) ==
    [name |-> m.name, window_id |-> PyOr(m.windowId, m.id),
     desktop_index |-> m.desktopIndex, target_monitor |-> m.targetMonitor,
     target_desktop |-> m.targetDesktop, exec_cmd |-> m.exec, key |-> m.key]

\* ---------------------------------------------------------------------------
\* handle_command (lines 1084-1234) as the list of external calls it makes.
\* A step is [k, a, w, d, m, n, g, c]:
\*   k = "act"      run_action(None, w, a, d, m)
\*   k = "sc"       invoke_kwin_shortcut(a with index n); a success skips the
\*                  steps that follow in the same group g
\*   k = "snapPre" / "snapPost"   build_state() of MoveWindow
\*   k = "collect"  collect_windows() of ActivateWindow
\*   k = "launch" / "key"         launch_exec_command / send_keypress
\*   k = "ack"      send_ack
\* c says that the step adds its entry to MoveWindow's commands list.
\* ---------------------------------------------------------------------------
Step(k, a, w) ==
    [k |-> k, a |-> a, w |-> w, d |-> "", m |-> "", n |-> -1, g |-> "", c |-> FALSE]

Act(a, w) == Step("act", a, w)

Shortcut(a, n, g) == [Step("sc", a, Null) EXCEPT !.n = n, !.g = g]

AckStep == Step("ack", "", Null)

\* One entry of the acknowledgment's command text.
Entry(verb, w, arg, n) == [verb |-> verb, w |-> w, arg |-> arg, n |-> n]

NameIs(c, nm) == PyEq(c.name, Str(nm))

\* A variant of the table below without the activation that precedes minimize,
\* maximize and the two fullscreen actions.
SimpleActions_NoActivate(nm) ==
    CASE nm = "CloseEvent" -> <<"close">>
      [] nm = "MinimizeEvent" -> <<"minimize">>
      [] nm = "MaximizeEvent" -> <<"maximize">>
      [] nm = "RestoreEvent" -> <<"restore">>
      [] nm = "FullscreenEvent" -> <<"fullscreen">>
      [] nm = "FullscreenExitEvent" -> <<"fullscreen-exit">>
      [] nm = "PinToggleEvent" -> <<"pin-toggle">>

\* Lines 1093-1138: the scripted actions of the seven window commands.
SimpleActions(nm) ==
    CASE nm = "CloseEvent" -> <<"close">>
      [] nm = "MinimizeEvent" -> <<"activate", "minimize">>
      [] nm = "MaximizeEvent" -> <<"activate", "maximize">>
      [] nm = "RestoreEvent" -> <<"restore">>
      [] nm = "FullscreenEvent" -> <<"activate", "fullscreen">>
      [] nm = "FullscreenExitEvent" -> <<"activate", "fullscreen-exit">>
      [] nm = "PinToggleEvent" -> <<"pin-toggle">>

\* A variant of NoPlan below that acknowledges the command it drops.
NoPlan_Ack == [todo |-> <<AckStep>>, commands |-> <<>>, push |-> FALSE]

\* Line 1234: no branch matched; nothing is called and nothing is sent.
NoPlan == [todo |-> <<>>, commands |-> <<>>, push |-> FALSE]

\* The branch handle_command takes, up to its first external call.
handle_command(c) ==
    IF \E nm \in WindowCommandNames : NameIs(c, nm) /\ Truthy(c.window_id) THEN
        LET nm == CHOOSE x \in WindowCommandNames : NameIs(c, x)
            acts == SimpleActions(nm)
        IN  [todo |-> [i \in 1..Len(acts) |-> Act(acts[i], c.window_id)] \o <<AckStep>>,
             commands |-> <<Entry(acts[Len(acts)], c.window_id, "", -1)>>,
             push |-> TRUE]
    ELSE IF NameIs(c, "LaunchApp") /\ Truthy(c.exec_cmd) THEN
        [todo |-> <<Step("launch", StrOf(c.exec_cmd), Null)>>,
         commands |-> <<Entry("exec", Null, StrOf(c.exec_cmd), -1)>>, push |-> TRUE]
    ELSE IF NameIs(c, "KeyEvent") /\ Truthy(c.key) THEN
        [todo |-> (IF Truthy(c.window_id) THEN <<Act("activate", c.window_id)>> ELSE <<>>)
                  \o <<Step("key", StrOf(c.key), c.window_id)>>,
         commands |-> <<Entry("key", Null, StrOf(c.key), -1)>>, push |-> TRUE]
    ELSE IF NameIs(c, "ActivateWindow") /\ Truthy(c.window_id) THEN
        [todo |-> <<Act("activate", c.window_id), Step("collect", "", c.window_id)>>,
         commands |-> <<Entry("activate", c.window_id, "", -1)>>, push |-> TRUE]
    ELSE IF NameIs(c, "SwitchDesktop") /\ Truthy(c.desktop_index) THEN
        [todo |-> <<[Act("switch-desktop", Null) EXCEPT !.d = StrOf(c.desktop_index)],
                    AckStep>>,
         commands |-> <<Entry("switch-desktop", Null, StrOf(c.desktop_index), -1)>>,
         push |-> TRUE]
    ELSE IF NameIs(c, "MoveWindow") /\ Truthy(c.window_id) /\ Truthy(c.target_desktop) THEN
        [todo |-> <<Step("snapPre", "", c.window_id)>>, commands |-> <<>>, push |-> TRUE]
    ELSE NoPlan

\* Lines 1194-1196: int() of the two monitor values is evaluated only when
\* target_monitor is truthy and the window was found; int("DP-2") raises.
MoveRaises(c, monitors) ==
    /\ Truthy(c.target_monitor)
    /\ find_window_monitor(monitors, c.window_id).t # "null"
    /\ ~IntOk(c.target_monitor)

\* Line 1196: the window is on no monitor of the snapshot, or on another one.
MoveNeeded(c, monitors) ==
    LET current_monitor == find_window_monitor(monitors, c.window_id)
    IN  /\ Truthy(c.target_monitor)
        /\ \/ current_monitor.t = "null"
           \/ IntOf(current_monitor) # IntOf(c.target_monitor)

\* A variant of the candidates below that tries screen n before screen n - 1.
ShortcutCandidates_Swapped(n) == <<n>> \o (IF n >= 1 THEN <<n - 1>> ELSE <<>>)

\* Lines 1201-1206: the shortcuts MoveWindow tries, in order.
ShortcutCandidates(n) == (IF n >= 1 THEN <<n - 1>> ELSE <<>>) \o <<n>>

\* A variant of the test below with "not window_pinned is None" for
\* "window_pinned is False": it toggles a window that is pinned already.
ShouldToggle_AnyPinState(c, monitors) ==
    /\ is_monitor_all_pinned(monitors, c.target_monitor)
    /\ find_window_pinned(monitors, c.window_id) = Bool(TRUE)

\* Line 1217: should_pin and window_pinned is False.
ShouldToggle(c, monitors) ==
    /\ is_monitor_all_pinned(monitors, c.target_monitor)
    /\ find_window_pinned(monitors, c.window_id) = Bool(FALSE)

\* Lines 1194-1222 after the first build_state: the calls up to the second one.
MovePlan(c, monitors) ==
    LET wid == c.window_id
        tm == c.target_monitor
        tried == IF IsDigit(tm) THEN ShortcutCandidates(IntOf(tm)) ELSE <<>>
        move == IF MoveNeeded(c, monitors)
                THEN <<[Act("activate", wid) EXCEPT !.c = TRUE]>>
                     \o [i \in 1..Len(tried) |->
                            [Shortcut("Window to Screen", tried[i], "mon") EXCEPT !.c = TRUE]]
                     \o <<[Act("move-monitor", wid) EXCEPT !.m = StrOf(tm), !.g = "mon",
                                                           !.c = TRUE]>>
                ELSE <<>>
        pin == IF ShouldToggle(c, monitors)
               THEN <<[Act("pin-toggle", wid) EXCEPT !.c = TRUE]>> ELSE <<>>
    IN  move
        \o <<[Act("move-desktop", wid) EXCEPT !.d = StrOf(c.target_desktop), !.c = TRUE]>>
        \o pin
        \o <<[Act("activate", wid) EXCEPT !.c = TRUE], Step("snapPost", "", wid)>>

\* A variant of PostPlan below that never reasserts fullscreen.
PostPlan_NoReassert(c, monitors) == <<AckStep>>

\* Lines 1223-1226: reassert fullscreen when the second snapshot shows it, then ack.
\* The trace entry is "kwin fullscreen", without the handle.
PostPlan(c, monitors) ==
    (IF find_window_fullscreen(monitors, c.window_id)
     THEN <<[Act("fullscreen", c.window_id) EXCEPT !.c = TRUE, !.g = "nohandle"]>>
     ELSE <<>>) \o <<AckStep>>

\* A variant of ActivatePlan below that invokes the shortcut for screen idx + 1
\* whether or not the one for screen idx succeeded.
ActivatePlan_BothScreens(c, idx) ==
    (IF idx >= 0 THEN <<Shortcut("Switch to Screen", idx, ""),
                        Shortcut("Switch to Screen", idx + 1, "")>> ELSE <<>>)
    \o <<Shortcut("Activate Window Demanding Attention", -1, ""),
         Act("clear-attention", c.window_id),
         Shortcut("Window Raise", -1, ""),
         Act("activate", c.window_id),
         AckStep>>

\* Lines 1169-1174 of ActivateWindow, after collect_windows; idx is the screen that
\* switch_to_screen_for_window resolved (-1: none, so no shortcut of its own).
ActivatePlan(c, idx) ==
    (IF idx >= 0 THEN <<Shortcut("Switch to Screen", idx, "screen"),
                        Shortcut("Switch to Screen", idx + 1, "screen")>> ELSE <<>>)
    \o <<Shortcut("Activate Window Demanding Attention", -1, ""),
         Act("clear-attention", c.window_id),
         Shortcut("Window Raise", -1, ""),
         Act("activate", c.window_id),
         AckStep>>

\* The entry a step adds to MoveWindow's commands list.
EntryOf(op) ==
    IF op.k = "sc" THEN Entry("shortcut", Null, op.a, op.n)
    ELSE IF op.g = "nohandle" THEN Entry(op.a, Null, "", -1)
    ELSE Entry(op.a, op.w, IF op.d # "" THEN op.d ELSE op.m, -1)

\* What a dispatch did: one event per external call, acknowledgment or frame.
Ev(e, op, ok) ==
    [e |-> e, a |-> op.a, w |-> op.w, d |-> op.d, m |-> op.m, n |-> op.n, ok |-> ok,
     cmd |-> <<>>, args |-> <<>>]

\* ---------------------------------------------------------------------------
\* State, and the two activities of a session (ws_handler, lines 1236-1269).
\* The event loop is single-threaded: an activity runs from one await to the
\* next, and the other one resumes only while this one waits.
\* ---------------------------------------------------------------------------
NoMsg == [BaseMsg EXCEPT !.kind = "none"]

\* What the first build_state of MoveWindow harvested, as far as the claims about
\* pinning go (kept beside the locals; the code does not read it).
NoPre == [hosted |-> FALSE, allPinned |-> FALSE, found |-> FALSE, pinned |-> FALSE,
          on |-> 0]

\* normalize_winid (lines 73-76) on the handles of the model.
normalize_winid(x) ==
    CASE x \in {"W1", "{w1}", " w1 ", "{W1}"} -> "w1"
      [] x \in {"W2", "{w2}"} -> "w2"
      [] x \in {" ", "{}", "{ }"} -> ""
      [] OTHER -> x

\* What a harvest says of the window whose handle is the JSON value wid: is there
\* such a record, on which monitor, pinned, fullscreen (the first record counts).
HandleFacts(h, wid) ==
    LET outs == h.meta.outputs
        mine == {i \in 1..Len(h.windows) : Str(h.windows[i].windowId) = wid}
        me == CHOOSE i \in mine : \A j \in mine : i <= j
    IN  IF mine = {} THEN [found |-> FALSE, on |-> 0, pinned |-> FALSE, fs |-> FALSE]
        ELSE [found |-> TRUE,
              on |-> CHOOSE k \in 1..Len(outs) : outs[k].name = h.windows[me].output.name,
              pinned |-> h.windows[me].onAllDesktops,
              fs |-> h.windows[me].fullScreen]

\* The window a command's handle denotes: the one with its canonical form.
CanonFacts(h, wid) == HandleFacts(h, Str(normalize_winid(StrOf(wid))))

NoFacts == [found |-> FALSE, on |-> 0, pinned |-> FALSE]

\* What MoveWindow's lookups returned on its first snapshot.
NoSeen == [monitor |-> Null, pinned |-> Null]

\* The second snapshot of MoveWindow: taken, what it says of the window, and
\* what the lookup returned.
NoPost == [taken |-> FALSE, fs |-> FALSE, canonFs |-> FALSE, fullscreen |-> FALSE]

\* collect_kwin_lines before it is called. pc: "off", "loop" (before an attempt),
\* "returned", "raised", "built" (the snapshot of the result is built); idx and k:
\* the candidate being read and the attempts made on it; last_err: the failure
\* kept, 0 for None, else the number of the attempt that failed; reads: every
\* attempt so far, in order.
NoColl ==
    [pc |-> "off", services |-> <<>>, idx |-> 1, k |-> 0, last_err |-> 0,
     reads |-> <<>>, service |-> "", lines |-> <<>>, err |-> 0]

\* run_action or collect_windows before it writes its program. pc: "off", "load",
\* "start", "unload" (before that call), "finally", "returned", "raised"; calls: the
\* calls made on the scripting interface, in order; file: the temporary program
\* file; err: the call whose failure is propagating, "" for none.
NoExe ==
    [pc |-> "off", tool |-> "", id |-> "", path |-> "", calls |-> <<>>,
     file |-> "none", err |-> ""]

\* No function applied yet.
NoFn == [op |-> "none"]

\* An empty journal and no acquisition.
NoJrn == [pc |-> "off"]

\* What ActivateWindow's acquisition found: is the window among the records, the
\* centre of its frame, and the screens the compositor's support information lists.
NoGeo == [has |-> FALSE, cx |-> 0, cy |-> 0, screens |-> <<>>]

\* entered: handle_command was called for the message read last.
NoLoc ==
    [commands |-> <<>>, push |-> FALSE, pre |-> NoPre, canon |-> NoFacts,
     seen |-> NoSeen, post |-> NoPost, entered |-> FALSE, geo |-> NoGeo]

NoPayload == [service |-> "", timestamp |-> -1, monitors |-> <<>>]

NoPoll == [n |-> 0, same |-> FALSE, sent |-> FALSE, prevSent |-> FALSE]

EmptyMeta == [outputs |-> <<>>, desktops |-> <<>>, activeDesktopName |-> ""]

\* What one acquisition can harvest from the compositor state w: the lines the
\* window-state program printed, or nothing at all (collect_kwin_lines, line 814).
Harvests(w) ==
    { [meta |-> MetaOf(w), windows |-> WindowsOf(w)],
      [meta |-> EmptyMeta, windows |-> <<>>] }

\* The facts of a harvest about monitor number n and the window with handle wid,
\* read off the window records themselves.
PreFacts(h, tm, wid) ==
    LET n == IF IntOk(tm) THEN IntOf(tm) ELSE 0
        outs == h.meta.outputs
        hosted == IF n \in 1..Len(outs)
                  THEN {i \in 1..Len(h.windows) : h.windows[i].output.name = outs[n].name}
                  ELSE {}
        mine == {i \in 1..Len(h.windows) : Str(h.windows[i].windowId) = wid}
        me == CHOOSE i \in mine : TRUE
    IN  [hosted |-> hosted # {},
         allPinned |-> \A i \in hosted : h.windows[i].onAllDesktops,
         found |-> mine # {},
         pinned |-> mine # {} /\ h.windows[me].onAllDesktops,
         on |-> IF mine = {} THEN 0
                ELSE CHOOSE k \in 1..Len(outs) : outs[k].name = h.windows[me].output.name]

W1States == {st \in WinState : st.present} \cup {Closed}

W2States == {Closed, [present |-> TRUE, out |-> "DP-2", pinned |-> TRUE, fs |-> FALSE]}

\* The session's small compositor: w1 stays on DP-1, not fullscreen.
W1SessionStates == {st \in W1States : st.present /\ st.out = "DP-1" /\ ~st.fs}

PushAtAwait == ppc \in {"send_wait", "sleep", "done", "off"}

\* A variant of RecvAtAwait below for a run_action that is awaited (run in a
\* thread): the event loop is free between the scripted actions of a dispatch.
RecvAtAwait_ActionsAwaited == rpc \in {"read", "run", "ack_wait", "push_wait", "dead"}

RecvAtAwait == rpc \in {"read", "ack_wait", "push_wait", "dead"}

\* A variant of the guard below for a receiver that starts handle_command as a task
\* of its own: the next message is read while the forced push is still awaited.
CanRead_DuringPush == rpc \in {"read", "ack_wait", "push_wait"}

\* async for message in websocket: the next message is read when the body of the
\* loop, the awaited handle_command included, has returned.
CanRead == rpc = "read"

NextPc(t) == IF t = <<>> THEN "read" ELSE "run"

PushVars == <<ppc, payload, last_payload_key, clock, poll>>

\* receiver, lines 1243-1249: read one message, parse it, enter handle_command.
Receive(M) ==
    /\ CanRead /\ PushAtAwait /\ conn = "open"
    /\ \E m \in M :
        /\ msg' = m
        /\ log' = <<>>
        /\ IF ParseRaises(m) THEN
              /\ rpc' = "dead" /\ death' = "parse"
              /\ cmd' = NoCmd /\ todo' = <<>> /\ loc' = NoLoc
           ELSE IF ParseIgnores(m) \/ ~IsCommand(m) THEN
              /\ rpc' = "read" /\ death' = death
              /\ cmd' = NoCmd /\ todo' = <<>> /\ loc' = NoLoc
           ELSE LET c == parse_command_message(m)
                    pl == handle_command(c)
                IN  /\ cmd' = c
                    /\ todo' = pl.todo
                    /\ loc' = [NoLoc EXCEPT !.commands = pl.commands, !.push = pl.push,
                                            !.entered = TRUE]
                    /\ rpc' = NextPc(pl.todo) /\ death' = death
    /\ UNCHANGED <<world, conn, PushVars, CallVars>>

\* The connection is closed: the async for ends and receiver returns.
ReceiveEnds ==
    /\ rpc = "read" /\ PushAtAwait /\ conn = "closed"
    /\ rpc' = "dead" /\ death' = "closed"
    /\ UNCHANGED <<world, conn, msg, cmd, todo, loc, log, PushVars, CallVars>>

\* run_action (lines 836-854): load, start, unload. A failing call raises; the
\* program has run when only the unload failed.
RunAction ==
    /\ rpc = "run" /\ Head(todo).k = "act"
    /\ LET op == Head(todo)
           done == ApplyAction(world, op.a, op.w, op.d, op.m)
       IN  /\ loc' = [loc EXCEPT !.commands = IF op.c THEN Append(@, EntryOf(op)) ELSE @]
           /\ \E r \in {"ok", "failed", "unload failed"} :
                /\ log' = Append(log, Ev("act", op, r = "ok"))
                /\ world' = IF r = "failed" THEN world ELSE done
                /\ IF r = "ok" THEN /\ todo' = Tail(todo) /\ rpc' = NextPc(Tail(todo))
                                    /\ death' = death
                   ELSE /\ todo' = <<>> /\ rpc' = "dead" /\ death' = "dispatch"
    /\ UNCHANGED <<conn, msg, cmd, PushVars, CallVars>>

\* The steps left after a shortcut of group g succeeded.
SkipGroup(t, g) ==
    IF g = "" THEN t ELSE SelectSeqIdx(t, {i \in 1..Len(t) : t[i].g # g}, 1)

\* What a successful "Window to Screen n" may do to the window just activated:
\* nothing, or send it to the output the compositor numbers n (from 0 or from 1).
ShortcutMoves(w, op, wid) ==
    IF op.a # "Window to Screen" THEN {w}
    ELSE {w} \cup { ApplyAction(w, "move-monitor", wid, "", OutputNames[k]) :
                      k \in {op.n, op.n + 1} \cap (1..Len(OutputNames)) }

\* invoke_kwin_shortcut (lines 226-255): True, or False when the call fails.
InvokeShortcut ==
    /\ rpc = "run" /\ Head(todo).k = "sc"
    /\ LET op == Head(todo)
       IN  \E ok \in BOOLEAN :
            /\ log' = Append(log, Ev("sc", op, ok))
            /\ IF ok THEN /\ todo' = SkipGroup(Tail(todo), op.g)
                          /\ world' \in ShortcutMoves(world, op, cmd.window_id)
                          /\ loc' = [loc EXCEPT !.commands =
                                        IF op.c THEN Append(@, EntryOf(op)) ELSE @]
               ELSE /\ todo' = Tail(todo)
                    /\ UNCHANGED <<world, loc>>
    /\ UNCHANGED <<conn, rpc, msg, cmd, death, PushVars, CallVars>>

\* The receive activity ends with an exception raised inside handle_command.
Raise(cause) == todo' = <<>> /\ rpc' = "dead" /\ death' = cause

\* MoveWindow, lines 1191-1196: the first build_state and what follows from it.
BuildStatePre ==
    /\ rpc = "run" /\ Head(todo).k = "snapPre"
    /\ \E ok \in BOOLEAN, h \in Harvests(world) :
        LET monitors == build_monitors(h.meta, h.windows)
        IN  /\ log' = Append(log, Ev("acq", Head(todo), ok))
            /\ IF ~ok THEN Raise("dispatch") /\ loc' = loc
               ELSE IF MoveRaises(cmd, monitors)
               THEN /\ Raise("dispatch")
                    /\ loc' = [loc EXCEPT !.seen =
                                  [monitor |-> find_window_monitor(monitors, cmd.window_id),
                                   pinned |-> find_window_pinned(monitors, cmd.window_id)]]
               ELSE /\ todo' = MovePlan(cmd, monitors)
                    /\ loc' = [loc EXCEPT
                                  !.pre = PreFacts(h, cmd.target_monitor, cmd.window_id),
                                  !.canon = [k \in DOMAIN NoFacts |->
                                                CanonFacts(h, cmd.window_id)[k]],
                                  !.seen = [monitor |-> find_window_monitor(monitors,
                                                                            cmd.window_id),
                                            pinned |-> find_window_pinned(monitors,
                                                                          cmd.window_id)]]
                    /\ UNCHANGED <<rpc, death>>
    /\ UNCHANGED <<world, conn, msg, cmd, PushVars, CallVars>>

\* MoveWindow, lines 1222-1225: the second build_state.
BuildStatePost ==
    /\ rpc = "run" /\ Head(todo).k = "snapPost"
    /\ \E ok \in BOOLEAN, h \in Harvests(world) :
        /\ log' = Append(log, Ev("acq", Head(todo), ok))
        /\ IF ~ok THEN Raise("dispatch") /\ loc' = loc
           ELSE LET monitors == build_monitors(h.meta, h.windows)
                IN  /\ todo' = PostPlan(cmd, monitors)
                    /\ loc' = [loc EXCEPT !.post =
                                  [taken |-> TRUE,
                                   fs |-> HandleFacts(h, cmd.window_id).fs,
                                   canonFs |-> CanonFacts(h, cmd.window_id).fs,
                                   fullscreen |-> find_window_fullscreen(monitors,
                                                                         cmd.window_id)]]
                    /\ UNCHANGED <<rpc, death>>
    /\ UNCHANGED <<world, conn, msg, cmd, PushVars, CallVars>>

\* w.get(key) of a record's handle, "" when the record has no such key.
HandleOf(w, key) == IF key \in DOMAIN w THEN w[key] ELSE ""

\* find_window_for_id (lines 78-89): the first record with that canonical handle
\* under internalId, windowId or id, as a list of at most one record.
find_window_for_id(windows, winid) ==
    LET target == normalize_winid(StrOf(winid))
        hits == {i \in 1..Len(windows) :
                    \/ normalize_winid(HandleOf(windows[i], "internalId")) = target
                    \/ normalize_winid(HandleOf(windows[i], "windowId")) = target
                    \/ normalize_winid(HandleOf(windows[i], "id")) = target}
    IN  IF ~Truthy(winid) \/ target = "" \/ hits = {} THEN <<>>
        ELSE <<windows[CHOOSE i \in hits : \A j \in hits : i <= j]>>

\* A screen of the support information (parse_screens_from_support_info, lines 45-71).
Screen(index, x) == [index |-> index, x |-> x, y |-> 0, width |-> 1920, height |-> 1080]

\* What get_kwin_support_info and its parse can give: nothing, both screens (the
\* compositor numbers them from 0), or the first screen only.
ScreenInfos == { <<>>, <<Screen(0, 0), Screen(1, 1920)>>, <<Screen(0, 0)>> }

\* Lines 100-101: the centre of a frame (the halves of the model are whole).
Centre(fg) == [cx |-> fg.x + (fg.width \div 2), cy |-> fg.y + (fg.height \div 2)]

\* switch_to_screen_for_window, lines 92-116: the index of the first screen that
\* holds the centre of the window's frame, -1 when nothing is resolved.
ScreenIndexFor(windows, winid, screens) ==
    LET w == find_window_for_id(windows, winid)
    IN  IF w = <<>> THEN -1
        ELSE LET c == Centre(w[1].frameGeometry)
                 hits == {i \in 1..Len(screens) :
                            /\ screens[i].x <= c.cx /\ c.cx < screens[i].x + screens[i].width
                            /\ screens[i].y <= c.cy /\ c.cy < screens[i].y + screens[i].height}
             IN  IF hits = {} THEN -1
                 ELSE screens[CHOOSE i \in hits : \A j \in hits : i <= j].index

\* ActivateWindow, lines 1164-1169: collect_windows, then the support information
\* and the screen that switch_to_screen_for_window resolves from both.
CollectWindows ==
    /\ rpc = "run" /\ Head(todo).k = "collect"
    /\ \E ok \in BOOLEAN, h \in Harvests(world), screens \in ScreenInfos :
        /\ log' = Append(log, Ev("collect", Head(todo), ok))
        /\ IF ~ok THEN Raise("dispatch") /\ loc' = loc
           ELSE LET w == find_window_for_id(h.windows, cmd.window_id)
                IN  /\ todo' = ActivatePlan(cmd, ScreenIndexFor(h.windows, cmd.window_id,
                                                                screens))
                    /\ loc' = [loc EXCEPT !.geo =
                                  IF w = <<>> THEN [NoGeo EXCEPT !.screens = screens]
                                  ELSE [has |-> TRUE, cx |-> Centre(w[1].frameGeometry).cx,
                                        cy |-> Centre(w[1].frameGeometry).cy,
                                        screens |-> screens]]
                    /\ UNCHANGED <<rpc, death>>
    /\ UNCHANGED <<world, conn, msg, cmd, PushVars, CallVars>>

\* value.split() and shlex.split(exec_cmd) on the exec texts of the model (no
\* quoting in them): the words of the text.
Words(x) ==
    CASE x = "firefox" -> <<"firefox">>
      [] x = "firefox %u" -> <<"firefox", "%u">>
      [] x = "code %F --new-window" -> <<"code", "%F", "--new-window">>
      [] OTHER -> <<>>

\* part.startswith("%"), line 633, on the words of the model.
StartsWithPercent(part) == part \in {"%u", "%F"}

\* sanitize_exec_command (lines 629-635): the words it keeps (it returns them
\* joined by blanks, or None when none is left).
sanitize_exec_command(x) ==
    SelectSeqIdx(Words(x), {i \in 1..Len(Words(x)) : ~StartsWithPercent(Words(x)[i])}, 1)

\* LaunchApp, lines 1139-1144: launch_exec_command(exec_cmd) spawns
\* shlex.split(exec_cmd); the command is acknowledged only when the spawn succeeded.
Launch ==
    /\ rpc = "run" /\ Head(todo).k = "launch"
    /\ \E ok \in {b \in BOOLEAN : b => Words(Head(todo).a) # <<>>} :
        /\ log' = Append(log, [Ev("launch", Head(todo), ok) EXCEPT
                                    !.args = IF ok THEN Words(Head(todo).a) ELSE <<>>])
        /\ todo' = IF ok THEN <<AckStep>> ELSE <<>>
        /\ rpc' = IF ok THEN "run" ELSE "read"
    /\ UNCHANGED <<world, conn, msg, cmd, loc, death, PushVars, CallVars>>

\* A variant of SendKey below in which a failed send_keypress is acknowledged with
\* the text of a success.
SendKey_PlainAck ==
    /\ rpc = "run" /\ Head(todo).k = "key"
    /\ \E ok \in BOOLEAN :
        /\ log' = Append(log, Ev("key", Head(todo), ok))
        /\ loc' = IF ok THEN loc ELSE [loc EXCEPT !.push = FALSE]
    /\ todo' = <<AckStep>>
    /\ UNCHANGED <<world, conn, rpc, msg, cmd, death, PushVars, CallVars>>

\* A variant of SendKey below in which a failed send_keypress returns without any
\* acknowledgment, as a failed launch does.
SendKey_SilentFailure ==
    /\ rpc = "run" /\ Head(todo).k = "key"
    /\ \E ok \in BOOLEAN :
        /\ log' = Append(log, Ev("key", Head(todo), ok))
        /\ todo' = IF ok THEN <<AckStep>> ELSE <<>>
        /\ rpc' = IF ok THEN "run" ELSE "read"
    /\ UNCHANGED <<world, conn, msg, cmd, loc, death, PushVars, CallVars>>

\* KeyEvent, lines 1150-1159: a failed send_keypress is acknowledged as an error,
\* and no state is pushed after it.
SendKey ==
    /\ rpc = "run" /\ Head(todo).k = "key"
    /\ \E ok \in BOOLEAN :
        /\ log' = Append(log, Ev("key", Head(todo), ok))
        /\ loc' = IF ok THEN loc
                  ELSE [loc EXCEPT !.commands = <<Entry("error: key failed", Null,
                                                        Head(todo).a, -1)>>,
                                   !.push = FALSE]
    /\ todo' = <<AckStep>>
    /\ UNCHANGED <<world, conn, rpc, msg, cmd, death, PushVars, CallVars>>

\* send_ack (lines 979-983): the frame is written, then the send is awaited.
SendAck ==
    /\ rpc = "run" /\ Head(todo).k = "ack"
    /\ IF conn = "closed" THEN Raise("send") /\ log' = log
       ELSE /\ log' = Append(log, [Ev("ack", Head(todo), TRUE) EXCEPT
                                        !.cmd = loc.commands])
            /\ todo' = <<>> /\ rpc' = "ack_wait" /\ death' = death
    /\ UNCHANGED <<world, conn, msg, cmd, loc, PushVars, CallVars>>

\* A variant of PushState below that returns after the acknowledgment without the
\* forced push.
PushState_NoPush ==
    /\ rpc = "ack_wait" /\ PushAtAwait
    /\ \E lost \in {b \in BOOLEAN : b => conn = "closed"} :
        IF lost THEN Raise("send") /\ log' = log
        ELSE rpc' = "read" /\ UNCHANGED <<todo, death, log>>
    /\ UNCHANGED <<world, conn, msg, cmd, loc, PushVars, CallVars>>

AcqStep == Step("push", "", Null)

\* After the acknowledgment: push_state (lines 1076-1082), which catches every
\* error of its acquisition and of its send.
PushState ==
    /\ rpc = "ack_wait" /\ PushAtAwait
    /\ \E lost \in {b \in BOOLEAN : b => conn = "closed"} :
        IF lost THEN Raise("send") /\ log' = log
        ELSE IF ~loc.push THEN rpc' = "read" /\ UNCHANGED <<todo, death, log>>
        ELSE \E ok \in BOOLEAN :
                /\ UNCHANGED <<todo, death>>
                /\ IF ok /\ conn = "open"
                   THEN /\ log' = log \o <<Ev("acq", AcqStep, TRUE), Ev("state", AcqStep, TRUE)>>
                        /\ rpc' = "push_wait"
                   ELSE /\ log' = Append(log, Ev("acq", AcqStep, ok))
                        /\ rpc' = "read"
    /\ UNCHANGED <<world, conn, msg, cmd, loc, PushVars, CallVars>>

\* The forced state frame has gone out: handle_command returns.
Return ==
    /\ rpc = "push_wait" /\ PushAtAwait
    /\ rpc' = "read"
    /\ UNCHANGED <<world, conn, msg, cmd, todo, loc, log, death, PushVars, CallVars>>

RecvVars == <<rpc, msg, cmd, todo, loc, log, death>>

\* One change of a window by the user or its application: it opens, closes, or
\* one of its properties changes.
OneChange(a, b) ==
    \/ a.present # b.present
    \/ /\ a.present /\ b.present
       /\ Cardinality({f \in {"out", "pinned", "fs"} : a[f] # b[f]}) = 1

\* The user and the applications change windows at any time.
EnvChange(S1, S2) ==
    /\ \E id \in {"w1", "w2"}, st \in S1 \cup S2 :
        /\ st \in (IF id = "w1" THEN S1 ELSE S2)
        /\ OneChange(world[id], st)
        /\ world' = [world EXCEPT ![id] = st]
    /\ UNCHANGED <<conn, RecvVars, PushVars, CallVars>>

\* The peer goes away.
PeerClose ==
    /\ conn = "open"
    /\ conn' = "closed"
    /\ UNCHANGED <<world, RecvVars, PushVars, CallVars>>

\* ---------------------------------------------------------------------------
\* The push activity (lines 1254-1269).
\* ---------------------------------------------------------------------------
\* The clock stops the model here; a poll's timestamp is the clock's value.
MaxClock == 2

\* finally: recv_task.cancel() -- the receive activity, waiting at an await, ends.
Cancelled ==
    /\ rpc' = "dead"
    /\ death' = IF rpc = "dead" THEN death ELSE "cancelled"
    /\ UNCHANGED <<msg, cmd, todo, loc, log, CallVars>>

\* Line 1259: the frame is sent when the serialized snapshot differs from the marker.
NeedsSend(p, last) == PayloadKey(p) # last

\* One poll, lines 1257-1262: build_state, serialize, compare, start the send.
Poll ==
    /\ ppc = "poll"
    /\ \E ok \in BOOLEAN, h \in Harvests(world) :
        IF ~ok THEN
            /\ ppc' = "done" /\ Cancelled
            /\ UNCHANGED <<payload, last_payload_key, poll>>
        ELSE LET p == build_payload("plasma-kwin_wayland.service", clock, h.meta, h.windows)
                 send == NeedsSend(p, last_payload_key)
             IN  /\ payload' = p
                 /\ poll' = [n |-> poll.n + 1,
                             same |-> poll.n >= 1 /\ p.monitors = payload.monitors,
                             sent |-> send /\ conn = "open",
                             prevSent |-> poll.sent]
                 /\ UNCHANGED last_payload_key
                 /\ IF send /\ conn = "closed" THEN ppc' = "done" /\ Cancelled
                    ELSE /\ ppc' = IF send THEN "send_wait" ELSE "sleep"
                         /\ UNCHANGED RecvVars
    /\ UNCHANGED <<world, conn, clock, CallVars>>

\* A variant of SendDone below that sets the marker before the send is awaited, so
\* that a failed send leaves the marker changed.
SendDone_MarksFirst ==
    /\ ppc = "send_wait" /\ RecvAtAwait
    /\ last_payload_key' = PayloadKey(payload)
    /\ \E lost \in {b \in BOOLEAN : b => conn = "closed"} :
        IF lost THEN ppc' = "done" /\ Cancelled
        ELSE ppc' = "sleep" /\ UNCHANGED RecvVars
    /\ UNCHANGED <<world, conn, payload, clock, poll, CallVars>>

\* Lines 1262-1265: the awaited send returns and the marker is set, or the send
\* raises because the peer is gone and the loop is left.
SendDone ==
    /\ ppc = "send_wait" /\ RecvAtAwait
    /\ \E lost \in {b \in BOOLEAN : b => conn = "closed"} :
        IF lost THEN /\ ppc' = "done" /\ Cancelled
                     /\ UNCHANGED last_payload_key
        ELSE /\ last_payload_key' = PayloadKey(payload)
             /\ ppc' = "sleep"
             /\ UNCHANGED RecvVars
    /\ UNCHANGED <<world, conn, payload, clock, poll, CallVars>>

\* Line 1266: asyncio.sleep(args.interval); the default interval is 1.0 s, one
\* hundred ticks of the timestamp, so the clock has moved on when the loop resumes.
Wake ==
    /\ ppc = "sleep" /\ RecvAtAwait
    /\ clock < MaxClock
    /\ clock' = clock + 1
    /\ ppc' = "poll"
    /\ UNCHANGED <<world, conn, RecvVars, payload, last_payload_key, poll, CallVars>>

\* ---------------------------------------------------------------------------
\* Specifications.
\* ---------------------------------------------------------------------------
InitRecv ==
    /\ conn = "open" /\ rpc = "read" /\ msg = NoMsg /\ cmd = NoCmd /\ todo = <<>>
    /\ loc = NoLoc /\ log = <<>> /\ death = ""
    /\ payload = NoPayload /\ last_payload_key = <<>> /\ clock = 0 /\ poll = NoPoll

\* The messages of the session specification: two window commands and what the
\* receiver ignores or fails on.
SessionMessages ==
    {m \in Messages :
        \/ m.kind # "object"
        \/ m.name \in {Str("MinimizeEvent"), Str("PinToggleEvent"), Str("FooEvent")}
           /\ m.windowId = Str("w1")}

\* Spec: one session, both activities, on the small compositor.
Init ==
    /\ world \in [{"w1", "w2"} -> W1SessionStates \cup W2States]
    /\ world["w1"] \in W1SessionStates /\ world["w2"] \in W2States
    /\ ppc = "poll"
    /\ InitRecv
    /\ coll = NoColl /\ exe = NoExe /\ fn = NoFn /\ jrn = NoJrn

Next ==
    \/ Receive(SessionMessages)
    \/ ReceiveEnds
    \/ RunAction
    \/ SendAck
    \/ PushState
    \/ Return
    \/ Poll
    \/ SendDone
    \/ Wake
    \/ EnvChange(W1SessionStates, W2States)
    \/ PeerClose

Spec == Init /\ [][Next]_vars

\* SpecDispatch: the receive activity alone, fed every message, on every
\* compositor state; the push activity is left out.
InitDispatch ==
    /\ world \in [{"w1", "w2"} -> W1States \cup W2States]
    /\ world["w1"] \in W1States /\ world["w2"] \in W2States
    /\ ppc = "off"
    /\ InitRecv
    /\ coll = NoColl /\ exe = NoExe /\ fn = NoFn /\ jrn = NoJrn

NextDispatch ==
    \/ Receive(Messages)
    \/ ReceiveEnds
    \/ RunAction
    \/ InvokeShortcut
    \/ BuildStatePre
    \/ BuildStatePost
    \/ CollectWindows
    \/ Launch
    \/ SendKey
    \/ SendAck
    \/ PushState
    \/ Return
    \/ EnvChange(W1States, W2States)
    \/ PeerClose

SpecDispatch == InitDispatch /\ [][NextDispatch]_vars

\* ---------------------------------------------------------------------------
\* The log collection of one acquisition (collect_kwin_lines, lines 799-814), one
\* journal query at a time, and the snapshot built from what it returns.
\* ---------------------------------------------------------------------------
\* range(3), line 801.
Attempts == 3

\* get_service_candidates, lines 778-787.
get_service_candidates(preferred) ==
    IF preferred # "" /\ preferred # "auto" THEN <<preferred>>
    ELSE <<"plasma-kwin_wayland.service", "plasma-kwin_x11.service",
           "kwin_wayland.service", "kwin_x11.service">>

\* order_candidates, lines 789-793, with the service detect_kwin_service found.
order_candidates(service, candidates) ==
    IF InSeq(service, candidates)
    THEN <<service>> \o SelectSeqIdx(candidates, {i \in 1..Len(candidates) :
                                                    candidates[i] # service}, 1)
    ELSE candidates

\* The --service argument, and what detect_kwin_service answers for it (lines
\* 169-196): the argument itself, or the unit that is active.
Preferred == {"auto", "kwin-custom.service"}

Detected(preferred) ==
    IF preferred # "" /\ preferred # "auto" THEN {preferred}
    ELSE {"plasma-kwin_wayland.service", "kwin_x11.service"}

\* What json.loads gives for a text: JSONDecodeError, or an object, of which the
\* value under "__type" is kept beside it.
Undecodable == [ok |-> FALSE, type |-> "", obj |-> <<>>]

Decoded(type, obj) == [ok |-> TRUE, type |-> type, obj |-> obj]

\* A line of the journal: its first and its last characters, and what json.loads
\* gives for the line without its surrounding blanks.
JournalLine(head, tail, decoded) == [head |-> head, tail |-> tail, decoded |-> decoded]

\* A line of other text of the unit.
TextLine == JournalLine(<<"k">>, <<"n">>, Undecodable)

\* A line printed by JSON.stringify (lines 358, 413): an object in braces.
ProgramLine(decoded) == JournalLine(<<"{">>, <<"}">>, decoded)

\* The journal of a unit as read_kwin_log_since returns it (lines 257-271): other
\* text of the unit, the meta line and one line per window.
JournalLines(w) ==
    <<TextLine, ProgramLine(Decoded("meta", MetaOf(w)))>>
    \o [i \in 1..Len(WindowsOf(w)) |-> ProgramLine(Decoded("window", WindowsOf(w)[i]))]

\* What one query can return: nothing, text that is no JSON, or the program's lines.
QueryResults(w) == { <<>>, <<TextLine>>, JournalLines(w) }

\* Lines 616-618: s = ln.strip(); s.startswith("{") and s.endswith("}").
Braced(ln) ==
    LET h == LStrip(ln.head, {" "})
        t == RStrip(ln.tail, {" "})
    IN  h # <<>> /\ Head(h) = "{" /\ t # <<>> /\ t[Len(t)] = "}"

\* A variant of Caught_json below for a parser without the except clause.
Caught_json_Nothing(exc) == FALSE

\* Line 621: except json.JSONDecodeError.
Caught_json(exc) == exc = "JSONDecodeError"

\* A variant of MetaAt below that keeps the first meta object.
MetaAt_First(metas) == CHOOSE i \in metas : \A j \in metas : i <= j

\* Lines 623-624: every meta object replaces the one before; the last one stays.
MetaAt(metas) == CHOOSE i \in metas : \A j \in metas : j <= i

\* parse_json_lines, lines 612-627: the last meta object and the other objects of
\* the lines that are in braces and decode; raised when an exception leaves it.
parse_json_lines(lines) ==
    LET braced == {i \in 1..Len(lines) : Braced(lines[i])}
        objs == {i \in braced : lines[i].decoded.ok}
        metas == {i \in objs : lines[i].decoded.type = "meta"}
        wins == SelectSeqIdx(lines, objs \ metas, 1)
    IN  [meta |-> IF metas = {} THEN EmptyMeta ELSE lines[MetaAt(metas)].decoded.obj,
         windows |-> [i \in 1..Len(wins) |-> wins[i].decoded.obj],
         raised |-> \E i \in braced \ objs : ~Caught_json("JSONDecodeError")]

\* A variant of Returns below that never returns from inside the loop.
Returns_Never(lines) == FALSE

\* Line 804: if lines.
Returns(lines) == lines # <<>>

\* A variant of Caught below that keeps the first failure.
Caught_KeepFirst(last_err, exc) == IF last_err = 0 THEN exc ELSE last_err

\* Lines 806-807: except RuntimeError as exc: last_err = exc.
Caught(last_err, exc) == exc

\* A variant of EmptyResult below that names the candidate read last.
EmptyResult_Last(services) == [service |-> services[Len(services)], lines |-> <<>>]

\* Line 814: return services[0], [].
EmptyResult(services) == [service |-> services[1], lines |-> <<>>]

\* resolve_services, lines 795-797, and the entry of collect_kwin_lines.
ResolveServices ==
    /\ coll.pc = "off"
    /\ \E preferred \in Preferred :
        \E service \in Detected(preferred) :
            coll' = [coll EXCEPT !.pc = "loop",
                        !.services = order_candidates(service,
                                                      get_service_candidates(preferred))]
    /\ UNCHANGED <<world, conn, RecvVars, PushVars, exe, fn, jrn>>

\* One pass of the inner loop (lines 802-808), with the loop control after it
\* (lines 801, 809-814): safe_read_kwin_log_since returns lines or raises
\* RuntimeError; the attempt that failed is the exception's identity.
ReadSince ==
    /\ coll.pc = "loop"
    /\ LET service == coll.services[coll.idx]
           attempt == Len(coll.reads) + 1
       IN  \E failed \in BOOLEAN :
           \E lines \in (IF failed THEN {<<>>} ELSE QueryResults(world)) :
             LET last_err == IF failed THEN Caught(coll.last_err, attempt)
                             ELSE coll.last_err
                 reads == Append(coll.reads,
                                 [service |-> service, failed |-> failed, lines |-> lines])
                 seen == [coll EXCEPT !.reads = reads, !.last_err = last_err]
             IN  coll' =
                   IF ~failed /\ Returns(lines) THEN
                       [seen EXCEPT !.pc = "returned", !.service = service, !.lines = lines]
                   ELSE IF coll.k + 1 < Attempts THEN
                       [seen EXCEPT !.k = coll.k + 1]
                   ELSE IF coll.idx < Len(coll.services) THEN
                       [seen EXCEPT !.idx = coll.idx + 1, !.k = 0]
                   ELSE IF last_err # 0 THEN
                       [seen EXCEPT !.pc = "raised", !.err = last_err]
                   ELSE
                       [seen EXCEPT !.pc = "returned",
                                    !.service = EmptyResult(coll.services).service,
                                    !.lines = EmptyResult(coll.services).lines]
    /\ UNCHANGED <<world, conn, RecvVars, PushVars, exe, fn, jrn>>

\* collect_windows and get_state_snapshot after the lines are back (lines 829-832,
\* 976-977): parse them and build the payload.
BuildSnapshot ==
    /\ coll.pc = "returned"
    /\ LET h == parse_json_lines(coll.lines)
       IN  payload' = build_payload(coll.service, clock, h.meta, h.windows)
    /\ coll' = [coll EXCEPT !.pc = "built"]
    /\ UNCHANGED <<world, conn, RecvVars, ppc, last_payload_key, clock, poll, exe, fn, jrn>>

InitCollect ==
    /\ world = [id \in {"w1", "w2"} |->
                  IF id = "w1" THEN [present |-> TRUE, out |-> "DP-1", pinned |-> FALSE,
                                     fs |-> FALSE]
                  ELSE Closed]
    /\ ppc = "off"
    /\ InitRecv
    /\ coll = NoColl /\ exe = NoExe /\ fn = NoFn /\ jrn = NoJrn

NextCollect ==
    \/ ResolveServices
    \/ ReadSince
    \/ BuildSnapshot

\* SpecCollect: one call of collect_kwin_lines on every candidate list, with every
\* outcome of every query, and the snapshot of what it returned.
SpecCollect == InitCollect /\ [][NextCollect]_vars

\* ---------------------------------------------------------------------------
\* One run of a program in the compositor: run_action (lines 836-854) or
\* collect_windows (lines 816-834) around kwin_load_start_unload (lines 198-224),
\* one call on the scripting interface at a time.
\* ---------------------------------------------------------------------------
\* The session part of the state when a part of the program is checked on its own.
InitQuiet ==
    /\ world = [id \in {"w1", "w2"} |->
                  IF id = "w1" THEN [present |-> TRUE, out |-> "DP-1", pinned |-> FALSE,
                                     fs |-> FALSE]
                  ELSE Closed]
    /\ ppc = "off"
    /\ InitRecv

\* which_any("qdbus", "qdbus6"), then which_any("gdbus") (lines 199, 206).
Tools == {"qdbus", "gdbus", ""}

\* script_id of run_action (line 843) and of collect_windows (line 817), for two
\* process ids.
ScriptIds ==
    {"winstate_action_100", "winstate_action_200",
     "winstate_sample_100", "winstate_sample_200"}

\* Names tempfile.NamedTemporaryFile gives the program file.
TempPaths == {"/tmp/tmpa.js", "/tmp/tmpb.js"}

\* The arguments of a call: loadScript gets the file and the id, start gets
\* neither, unloadScript gets the id.
CallOf(op, id, path) ==
    [op |-> op, id |-> IF op = "start" THEN "" ELSE id,
     path |-> IF op = "load" THEN path ELSE "", ok |-> TRUE]

\* A variant of AfterCall below that goes on to the next call when one failed.
AfterCall_GoesOn(op, ok) ==
    IF op = "load" THEN "start" ELSE IF op = "start" THEN "unload" ELSE "finally"

\* run has check=True: a call that fails raises, and the later calls are not made.
AfterCall(op, ok) ==
    IF ~ok THEN "finally"
    ELSE IF op = "load" THEN "start" ELSE IF op = "start" THEN "unload" ELSE "finally"

\* Lines 843-847 (817-822): the id, and the program written to a temporary file
\* that stays when it is closed; then the entry of kwin_load_start_unload.
WriteProgram ==
    /\ exe.pc = "off"
    /\ \E tool \in Tools, id \in ScriptIds, path \in TempPaths :
        exe' = [exe EXCEPT !.pc = IF tool = "" THEN "missing" ELSE "load",
                           !.tool = tool, !.id = id, !.path = path, !.file = "present"]
    /\ UNCHANGED <<world, conn, RecvVars, PushVars, coll, fn, jrn>>

\* Line 224: neither tool is installed.
MissingTool ==
    /\ exe.pc = "missing"
    /\ exe' = [exe EXCEPT !.pc = "finally", !.err = "missing"]
    /\ UNCHANGED <<world, conn, RecvVars, PushVars, coll, fn, jrn>>

\* One run(...) of lines 201-203 or 208-222.
ScriptingCall ==
    /\ exe.pc \in {"load", "start", "unload"}
    /\ \E ok \in BOOLEAN :
        exe' = [exe EXCEPT !.pc = AfterCall(exe.pc, ok),
                           !.calls = Append(@, [CallOf(exe.pc, exe.id, exe.path)
                                                  EXCEPT !.ok = ok]),
                           !.err = IF ok THEN "" ELSE exe.pc]
    /\ UNCHANGED <<world, conn, RecvVars, PushVars, coll, fn, jrn>>

\* The finally clause (lines 850-854, 829-834): os.remove(js_path), then the
\* return or the exception that was on its way.
RemoveFile ==
    /\ exe.pc = "finally"
    /\ exe' = [exe EXCEPT !.pc = IF exe.err = "" THEN "returned" ELSE "raised",
                           !.file = "removed"]
    /\ UNCHANGED <<world, conn, RecvVars, PushVars, coll, fn, jrn>>

InitExecute ==
    /\ InitQuiet
    /\ coll = NoColl /\ exe = NoExe /\ fn = NoFn /\ jrn = NoJrn

NextExecute ==
    \/ WriteProgram
    \/ MissingTool
    \/ ScriptingCall
    \/ RemoveFile

\* SpecExecute: one run of a program, with every outcome of every call.
SpecExecute == InitExecute /\ [][NextExecute]_vars

\* ---------------------------------------------------------------------------
\* The sessions of one process on the scripting interface. Every session runs
\* in the one event loop of asyncio.run(run_ws()) (lines 1276, 1288); a task of a
\* session runs from one await to the next, and collect_windows, run_action and
\* the three run(...) of kwin_load_start_unload are plain blocking calls.
\* ---------------------------------------------------------------------------
Sessions == {1, 2, 3}

\* os.getpid() of the process: script_id of collect_windows (line 817) and of
\* run_action (line 843).
ScriptIdOf(purpose) ==
    IF purpose = "sample" THEN "winstate_sample_100" ELSE "winstate_action_100"

\* The sessions before any sequence. at: where each session's task is ("await",
\* or the call it makes next); id: the id of its current or last sequence; since:
\* the sessions that made a load under that id after the session's own load;
\* ended: its last sequence went through its unload; collided: an unload was made
\* for a sequence with such a load of another session after its load.
NoSessions ==
    [pc |-> "sessions", at |-> [s \in Sessions |-> "await"], id |-> [s \in Sessions |-> ""],
     since |-> [s \in Sessions |-> {}], ended |-> [s \in Sessions |-> FALSE],
     collided |-> FALSE]

\* A variant of LoopFree below for calls that are awaited (run in a thread): a
\* task is resumed while another one is inside its sequence.
LoopFree_DuringCalls == TRUE

\* A task is resumed by the event loop only when the task that ran has reached
\* an await: no task is inside a synchronous call sequence.
LoopFree == \A s \in Sessions : exe.at[s] = "await"

\* A session's task, resumed at an await (line 1245 or 1266), reaches
\* collect_windows or run_action: the id is formed and kwin_load_start_unload is
\* entered.
BeginSequence(s) ==
    /\ exe.pc = "sessions" /\ LoopFree
    /\ exe.at[s] = "await"
    /\ \E purpose \in {"sample", "action"} :
        exe' = [exe EXCEPT !.at[s] = "load", !.id[s] = ScriptIdOf(purpose),
                           !.since[s] = {}, !.ended[s] = FALSE]
    /\ UNCHANGED <<world, conn, RecvVars, PushVars, coll, fn, jrn>>

\* The sessions whose sequence under this id has made its load and not yet its
\* last call.
InProgress(id) == {t \in Sessions : exe.at[t] \in {"start", "unload"} /\ exe.id[t] = id}

\* One run(...) of the session's sequence; after the unload, or after a call that
\* failed, the task goes on to its next await.
SessionCall(s) ==
    /\ exe.pc = "sessions" /\ exe.at[s] \in {"load", "start", "unload"}
    /\ \E ok \in BOOLEAN :
        LET op == exe.at[s]
            next == AfterCall(op, ok)
        IN  exe' = [exe EXCEPT
                      !.at[s] = IF next = "finally" THEN "await" ELSE next,
                      !.since = [t \in Sessions |->
                                    IF op = "load" /\ t \in InProgress(exe.id[s]) \ {s}
                                    THEN @[t] \cup {s} ELSE @[t]],
                      !.ended[s] = (op = "unload"),
                      !.collided = @ \/ (op = "unload" /\ exe.since[s] # {})]
    /\ UNCHANGED <<world, conn, RecvVars, PushVars, coll, fn, jrn>>

InitSessions ==
    /\ InitQuiet
    /\ coll = NoColl /\ exe = NoSessions /\ fn = NoFn /\ jrn = NoJrn

NextSessions ==
    \E s \in Sessions : BeginSequence(s) \/ SessionCall(s)

\* SpecSessions: three sessions, each running one sequence after another whenever
\* the event loop resumes it; the process does not stop.
SpecSessions == InitSessions /\ [][NextSessions]_vars /\ WF_vars(NextSessions)

\* ---------------------------------------------------------------------------
\* find_window_for_id (lines 78-89) applied to a list of records and a target.
\* ---------------------------------------------------------------------------
\* The longest list of records looked through.
MaxRecords == 2

\* Records as the journal can hold them: any JSON object that is no meta object is
\* a window record, with or without an id key; "" stands for a handle that is
\* absent, null or empty.
LookupRecords ==
    { [internalId |-> a, windowId |-> b, caption |-> "w1"] :
        a \in {"", "W1", "w2"}, b \in {"", "w1", "w2", "{}"} }
    \cup { [internalId |-> a, windowId |-> b, id |-> "w1", caption |-> "w1"] :
        a \in {"", "W1", "w2"}, b \in {"", "w1", "w2", "{}"} }

\* The targets: None, and texts.
LookupTargets == {Null} \cup {Str(t) : t \in {"", " ", "{}", "w1", "{W1}", "w2", "w3"}}

RecordLists == UNION { [1..n -> LookupRecords] : n \in 0..MaxRecords }

\* One call of find_window_for_id.
Lookup ==
    /\ fn.op = "find_window_for_id" /\ ~fn.done
    /\ fn' = [fn EXCEPT !.done = TRUE, !.out = find_window_for_id(fn.windows, fn.target)]
    /\ UNCHANGED <<world, conn, RecvVars, PushVars, coll, exe, jrn>>

InitLookup ==
    /\ InitQuiet
    /\ coll = NoColl /\ exe = NoExe /\ jrn = NoJrn
    /\ \E ws \in RecordLists, t \in LookupTargets :
        fn = [op |-> "find_window_for_id", windows |-> ws, target |-> t,
              done |-> FALSE, out |-> <<>>]

NextLookup == Lookup

\* SpecLookup: find_window_for_id on every list of records and every target.
SpecLookup == InitLookup /\ [][NextLookup]_vars

\* ---------------------------------------------------------------------------
\* normalize_winid (lines 73-76) on texts as lists of characters.
\* ---------------------------------------------------------------------------
\* The longest text canonicalized.
MaxLen == 3

\* The characters of the texts: a blank, the two braces, a letter in both cases.
IdChars == {" ", "{", "}", "a", "A"}

Texts == UNION { [1..n -> IdChars] : n \in 0..MaxLen }

\* str.strip(chars); str.strip() is Strip(cs, {" "}) on these characters.
Strip(cs, chars) == RStrip(LStrip(cs, chars), chars)

\* str.lower()
Lower(cs) == [i \in 1..Len(cs) |-> IF cs[i] = "A" THEN "a" ELSE cs[i]]

\* normalize_winid, lines 73-76, of a text; None is given as absent.
NormalizeWinid(absent, cs) ==
    IF absent \/ cs = <<>> THEN <<>>
    ELSE Strip(Lower(Strip(cs, {" "})), {"{", "}"})

\* One call of normalize_winid.
Canonicalize ==
    /\ fn.op = "normalize_winid" /\ ~fn.done
    /\ fn' = [fn EXCEPT !.done = TRUE, !.out = NormalizeWinid(fn.absent, fn.text)]
    /\ UNCHANGED <<world, conn, RecvVars, PushVars, coll, exe, jrn>>

\* normalize_winid called on what the call before returned (a text, not None).
CanonicalizeAgain ==
    /\ fn.op = "normalize_winid" /\ fn.done /\ ~fn.again
    /\ fn' = [fn EXCEPT !.again = TRUE, !.out2 = NormalizeWinid(FALSE, fn.out)]
    /\ UNCHANGED <<world, conn, RecvVars, PushVars, coll, exe, jrn>>

InitCanon ==
    /\ InitQuiet
    /\ coll = NoColl /\ exe = NoExe /\ jrn = NoJrn
    /\ \E absent \in BOOLEAN, cs \in Texts :
        /\ absent => cs = <<>>
        /\ fn = [op |-> "normalize_winid", absent |-> absent, text |-> cs,
                 done |-> FALSE, out |-> <<>>, again |-> FALSE, out2 |-> <<>>]

NextCanon ==
    \/ Canonicalize
    \/ CanonicalizeAgain

\* SpecCanon: normalize_winid on every text up to MaxLen characters and on None,
\* and then on its own result.
SpecCanon == InitCanon /\ [][NextCanon]_vars

\* ---------------------------------------------------------------------------
\* build_payload (lines 967-972) applied to a meta record and a list of window
\* records.
\* ---------------------------------------------------------------------------
\* The longest window list and the longest output list built from.
MaxWins == 2

MaxOutputs == 3

\* A window record as the window-state program prints it (lines 388-410), with
\* handle h ("" for none), pid, pinned or on desktop "1", on output out; the
\* caption tells the records of a list apart.
BuildRecord(h, pid, pinned, out, caption) ==
    [pid |-> pid, caption |-> caption, windowId |-> h, internalId |-> h,
     onAllDesktops |-> pinned, desktops |-> IF pinned THEN <<"ALL">> ELSE <<"1">>,
     output |-> OutputObj(out),
     frameGeometry |-> [x |-> 100, y |-> 100, width |-> 800, height |-> 600],
     minimized |-> FALSE, maximized |-> FALSE, fullScreen |-> FALSE, active |-> FALSE,
     appName |-> "", appExec |-> ""]

RecordShapes ==
    [h : {"", "w1", "w2"}, pid : {Null, Num(1), Num(2)}, pinned : BOOLEAN,
     out : {"DP-1", "DP-2"}]

Captions == <<"first", "second", "third", "fourth">>

\* The list of records of a list of shapes, the caption of each telling its place.
RecordsOf(sh) ==
    [i \in 1..Len(sh) |-> BuildRecord(sh[i].h, sh[i].pid, sh[i].pinned, sh[i].out,
                                      Captions[i])]

\* The meta line of a compositor with both outputs and both desktops.
BuildMeta ==
    [outputs |-> <<OutputObj("DP-1"), OutputObj("DP-2")>>,
     desktops |-> DesktopNames, activeDesktopName |-> "1"]

OutputTags == <<"DP-1", "DP-2", "DP-3", "DP-4", "DP-5">>

\* A coordinate of an output's geometry: missing, or a number of pixels.
Coordinates == {Null, Num(0), Num(1920)}

\* The list of outputs of a list of corners, the name of each telling its place.
OutputsOf(g) ==
    [i \in 1..Len(g) |-> [name |-> OutputTags[i], model |-> "",
                          geometry |-> [x |-> g[i].x, y |-> g[i].y,
                                        width |-> Num(1920), height |-> Num(1080)]]]

\* A build's input before the call.
BuildInput(meta, windows) ==
    [op |-> "build_payload", service |-> "plasma-kwin_wayland.service",
     meta |-> meta, windows |-> windows, done |-> FALSE, out |-> NoPayload]

\* One call of build_payload.
Build ==
    /\ fn.op = "build_payload" /\ ~fn.done
    /\ fn' = [fn EXCEPT !.done = TRUE,
                        !.out = build_payload(fn.service, clock, fn.meta, fn.windows)]
    /\ UNCHANGED <<world, conn, RecvVars, PushVars, coll, exe, jrn>>

InitBuild ==
    /\ InitQuiet
    /\ coll = NoColl /\ exe = NoExe /\ jrn = NoJrn
    /\ \/ \E m \in {BuildMeta, EmptyMeta}, n \in 0..MaxWins :
            \E sh \in [1..n -> RecordShapes] : fn = BuildInput(m, RecordsOf(sh))
       \/ \E n \in 0..MaxOutputs :
            \E g \in [1..n -> [x : Coordinates, y : Coordinates]] :
                fn = BuildInput([BuildMeta EXCEPT !.outputs = OutputsOf(g)],
                                <<BuildRecord("w1", Num(1), FALSE, "DP-1", "first")>>)

NextBuild == Build

\* SpecBuild: build_payload on every window list of up to MaxWins records, under
\* the full meta line and under none, and on every output list of up to MaxOutputs
\* outputs with a window on the first one.
SpecBuild == InitBuild /\ [][NextBuild]_vars

\* ---------------------------------------------------------------------------
\* build_payload applied twice to the same service, meta record and window list,
\* with the wall clock going on in between (time.time() at line 970).
\* ---------------------------------------------------------------------------
\* One call of build_payload on the input; the second call gets the same input.
BuildAgain ==
    /\ fn.op = "build_payload twice" /\ Len(fn.outs) < 2
    /\ fn' = [fn EXCEPT !.outs = Append(@, build_payload(fn.service, clock, fn.meta,
                                                         fn.windows))]
    /\ UNCHANGED <<world, conn, RecvVars, PushVars, coll, exe, jrn>>

\* The wall clock reaches its next tick.
TimePasses ==
    /\ fn.op = "build_payload twice" /\ clock < MaxClock
    /\ clock' = clock + 1
    /\ UNCHANGED <<world, conn, RecvVars, ppc, payload, last_payload_key, poll, CallVars>>

InitRebuild ==
    /\ world \in [{"w1", "w2"} -> W1States \cup W2States]
    /\ world["w1"] \in W1States /\ world["w2"] \in W2States
    /\ ppc = "off"
    /\ InitRecv
    /\ coll = NoColl /\ exe = NoExe /\ jrn = NoJrn
    /\ \E h \in Harvests(world) :
        fn = [op |-> "build_payload twice", service |-> "plasma-kwin_wayland.service",
              meta |-> h.meta, windows |-> h.windows, outs |-> <<>>]

NextRebuild ==
    \/ BuildAgain
    \/ TimePasses

\* SpecRebuild: two builds from one input, at any two times.
SpecRebuild == InitRebuild /\ [][NextRebuild]_vars

\* ---------------------------------------------------------------------------
\* parse_json_lines (lines 612-627) applied to a list of journal lines.
\* ---------------------------------------------------------------------------
\* The longest list of lines parsed.
MaxLines == 3

\* The forms of a line: an object in braces, the same with blanks around it, other
\* text, and text that has only the opening or only the closing brace.
LineForms ==
    { [head |-> <<"{">>, tail |-> <<"}">>], [head |-> <<" ", "{">>, tail |-> <<"}", " ">>],
      [head |-> <<"k">>, tail |-> <<"n">>], [head |-> <<"{">>, tail |-> <<"}", "n">>],
      [head |-> <<"k", "{">>, tail |-> <<"}">>] }

\* What the text of the line holds between its ends: nothing that decodes, a meta
\* object, or another object.
LineBodies == {"garbage", "meta", "window"}

\* The object of the line at place i, which its activeDesktopName or its caption
\* tells apart from the objects of the other lines.
BodyAt(body, i) ==
    IF body = "meta"
    THEN Decoded("meta", [outputs |-> <<>>, desktops |-> <<>>,
                          activeDesktopName |-> Captions[i]])
    ELSE IF body = "window"
    THEN Decoded("window", BuildRecord("w1", Num(1), FALSE, "DP-1", Captions[i]))
    ELSE Undecodable

LinesOf(sh) ==
    [i \in 1..Len(sh) |-> JournalLine(sh[i].form.head, sh[i].form.tail,
                                      BodyAt(sh[i].body, i))]

\* One call of parse_json_lines.
Parse ==
    /\ fn.op = "parse_json_lines" /\ ~fn.done
    /\ fn' = [fn EXCEPT !.done = TRUE, !.out = parse_json_lines(fn.lines)]
    /\ UNCHANGED <<world, conn, RecvVars, PushVars, coll, exe, jrn>>

InitParse ==
    /\ InitQuiet
    /\ coll = NoColl /\ exe = NoExe /\ jrn = NoJrn
    /\ \E n \in 0..MaxLines :
        \E sh \in [1..n -> [form : LineForms, body : LineBodies]] :
            fn = [op |-> "parse_json_lines", lines |-> LinesOf(sh), done |-> FALSE,
                  out |-> [meta |-> EmptyMeta, windows |-> <<>>, raised |-> FALSE]]

NextParse == Parse

\* SpecParse: parse_json_lines on every list of up to MaxLines lines.
SpecParse == InitParse /\ [][NextParse]_vars

\* ---------------------------------------------------------------------------
\* Acquisitions one after another on one journal (get_state_snapshot, lines
\* 974-977; collect_windows, lines 816-834; read_kwin_log_since, lines 257-271).
\* The journal keeps every line with the time it was printed; a query gives the
\* lines printed at or after its --since time, which line 975 cuts to the second.
\* ---------------------------------------------------------------------------
\* The acquisitions made on the journal.
MaxRuns == 3

\* The journal before the first acquisition. pc: "idle", "ran" (the program has
\* printed), "built"; run: the number of the acquisition; since: its --since
\* second; entries: the journal; read: the entries its query returned.
EmptyJournal ==
    [pc |-> "idle", run |-> 0, since |-> 0, entries |-> <<>>, read |-> <<>>]

\* Lines 975 and 826: the --since second is taken, then the window-state program
\* runs and prints the meta line and the window lines into the journal.
RunProgram ==
    /\ jrn.pc \in {"idle", "built"} /\ jrn.run < MaxRuns
    /\ LET printed == Tail(JournalLines(world))
       IN  jrn' = [jrn EXCEPT !.pc = "ran", !.run = @ + 1, !.since = clock,
                              !.entries = @ \o [i \in 1..Len(printed) |->
                                                  [sec |-> clock, run |-> jrn.run + 1,
                                                   line |-> printed[i]]]]
    /\ UNCHANGED <<world, conn, RecvVars, PushVars, coll, exe, fn>>

\* Lines 827-832 and 977: the query for the lines since that second, the parse of
\* what it returns, and the snapshot.
ReadJournal ==
    /\ jrn.pc = "ran"
    /\ LET got == SelectSeqIdx(jrn.entries, {i \in 1..Len(jrn.entries) :
                                               jrn.entries[i].sec >= jrn.since}, 1)
           h == parse_json_lines([i \in 1..Len(got) |-> got[i].line])
       IN  /\ jrn' = [jrn EXCEPT !.pc = "built", !.read = got]
           /\ payload' = build_payload("plasma-kwin_wayland.service", clock, h.meta,
                                       h.windows)
    /\ UNCHANGED <<world, conn, RecvVars, ppc, last_payload_key, clock, poll, coll, exe, fn>>

\* Between two acquisitions the window w1 goes to the other output, as the
\* move-monitor action of MoveWindow makes it (lines 1196-1218).
WindowMoves ==
    /\ jrn.pc = "built"
    /\ world' = [world EXCEPT !["w1"].out = IF @ = "DP-1" THEN "DP-2" ELSE "DP-1"]
    /\ UNCHANGED <<conn, RecvVars, PushVars, CallVars>>

\* The wall clock reaches its next second.
SecondPasses ==
    /\ jrn.pc \in {"idle", "built"} /\ clock < MaxClock
    /\ clock' = clock + 1
    /\ UNCHANGED <<world, conn, RecvVars, ppc, payload, last_payload_key, poll, CallVars>>

InitJournal ==
    /\ InitQuiet
    /\ coll = NoColl /\ exe = NoExe /\ fn = NoFn /\ jrn = EmptyJournal

NextJournal ==
    \/ RunProgram
    \/ ReadJournal
    \/ WindowMoves
    \/ SecondPasses

\* SpecJournal: up to MaxRuns acquisitions in a row, the window moving and the
\* clock going on between them or not.
SpecJournal == InitJournal /\ [][NextJournal]_vars

\* ---------------------------------------------------------------------------
\* Reading a dispatch's log.
\* ---------------------------------------------------------------------------
Where(l, kinds) == {i \in 1..Len(l) : l[i].e \in kinds}

Events(l, kinds) == SelectSeqIdx(l, Where(l, kinds), 1)

HasAck(l) == Where(l, {"ack"}) # {}

AckAt(l) == CHOOSE i \in Where(l, {"ack"}) : TRUE

IsPrefix(a, b) == Len(a) <= Len(b) /\ SubSeq(b, 1, Len(a)) = a

\* handle_command has returned (without raising) for the command read last.
Returned == rpc = "read" /\ cmd # NoCmd

\* ---------------------------------------------------------------------------
\* Claims.
\* ---------------------------------------------------------------------------

\* C1: of two consecutive polls of the push activity that see the same monitors,
\* desktops and windows, the first sends one state frame and the second sends none.
C1_UnchangedPollSendsNothing ==
    (poll.same /\ payload.monitors # <<>>) => (poll.prevSent /\ ~poll.sent)

\* The windows of a monitor of a snapshot: those of its desktops' lists (every window
\* record of the model has a handle and is on a desktop of the list, or pinned).
HostedViews(m) == Flatten([d \in 1..Len(m.desktops) |-> m.desktops[d].windows])

\* C2: a monitor's all-pinned flag is true iff the monitor hosts at least one window
\* and every window it hosts is pinned; a monitor with no windows has it false.
C2_AllPinnedFlag ==
    \A i \in 1..Len(payload.monitors) :
        LET m == payload.monitors[i]
            ws == HostedViews(m)
        IN  m.on_all_desktops <=>
                (ws # <<>> /\ \A k \in 1..Len(ws) : ws[k].on_all_desktops)

\* C3: a malformed or unrecognized message is ignored: nothing is acknowledged or
\* executed for it and the receive activity goes on reading (it ends only when the
\* connection does).
C3_MalformedIgnored ==
    msg \in MalformedMessages => (log = <<>> /\ death \in {"", "closed"})

\* The calls of a dispatch that act on the compositor or the system.
CallKinds == {"act", "sc", "launch", "key", "collect"}

KindOfEvent(ev) ==
    IF ev.e = "sc" \/ ev.a = "move-monitor" THEN "monitor-move" ELSE ev.a

KindOfEntry(en) ==
    IF en.verb \in {"shortcut", "move-monitor"} THEN "monitor-move" ELSE en.verb

\* The actions a dispatch executed, in order: its scripted actions and the
\* shortcuts that succeeded.
ExecutedKinds(l) ==
    LET ex == SelectSeqIdx(l, {i \in 1..Len(l) :
                                 l[i].e = "act" \/ (l[i].e = "sc" /\ l[i].ok)}, 1)
    IN  [i \in 1..Len(ex) |-> KindOfEvent(ex[i])]

TraceKinds(commands) == [i \in 1..Len(commands) |-> KindOfEntry(commands[i])]

ScenarioB ==
    /\ NameIs(cmd, "MoveWindow")
    /\ cmd.target_monitor = Num(2) /\ cmd.target_desktop = Str("2")
    /\ loc.pre.found /\ ~loc.pre.pinned /\ loc.pre.on = 1
    /\ loc.pre.hosted /\ loc.pre.allPinned

ScenarioBOrder == <<"activate", "monitor-move", "move-desktop", "pin-toggle", "activate">>

\* C4: MoveWindow of a non-pinned window on monitor 1 to monitor 2, desktop "2", all
\* windows of monitor 2 pinned in the snapshot before the move: the executed actions
\* and the entries of the acknowledgment's trace are, in order, activate,
\* monitor-move, move-desktop, pin-toggle, activate (then at most the fullscreen
\* that the second snapshot asks for).
C4_ScenarioBOrder ==
    ScenarioB =>
        /\ IsPrefix(ExecutedKinds(log), ScenarioBOrder \o <<"fullscreen">>)
        /\ HasAck(log) =>
            /\ IsPrefix(ScenarioBOrder, ExecutedKinds(log))
            /\ TraceKinds(log[AckAt(log)].cmd) = ExecutedKinds(log)

C4_Witness ==
    /\ ScenarioB /\ Returned /\ HasAck(log)
    /\ ExecutedKinds(log) = ScenarioBOrder

Known(c) == \E nm \in KnownCommandNames : NameIs(c, nm)

\* The required fields of a command, by name, each with a value that counts.
RequiredFields(c) ==
    IF NameIs(c, "LaunchApp") THEN Truthy(c.exec_cmd)
    ELSE IF NameIs(c, "KeyEvent") THEN Truthy(c.key)
    ELSE IF NameIs(c, "SwitchDesktop") THEN Truthy(c.desktop_index)
    ELSE IF NameIs(c, "MoveWindow") THEN Truthy(c.window_id) /\ Truthy(c.target_desktop)
    ELSE Truthy(c.window_id)

Complete(c) == Known(c) /\ RequiredFields(c)

Acks(l) == Where(l, {"ack"})

LaunchFailed(l) == \E i \in Where(l, {"launch"}) : ~l[i].ok

\* The handling of the command read last is over: handle_command returned or raised.
Over == cmd # NoCmd /\ (rpc = "read" \/ death = "dispatch")

\* C5 as stated: every command with a known name and its required fields yields
\* exactly one acknowledgment with a non-empty command string, and a command with
\* any other name yields none.
C5_EveryKnownCommandAcked ==
    /\ (Over /\ Complete(cmd)) =>
            /\ Cardinality(Acks(log)) = 1
            /\ log[AckAt(log)].cmd # <<>>
    /\ ~Known(cmd) => Acks(log) = {}

\* C5, amended: a command is acknowledged at most once and with a non-empty command
\* string; a command with a known name and its required fields whose dispatch
\* returns is acknowledged exactly once, unless it is a LaunchApp whose spawn
\* failed, which is not acknowledged; a dispatch that raises (a scripted action or
\* an acquisition failed) sends none; an unknown or incomplete command yields none.
C5_AckPerCommand ==
    /\ Cardinality(Acks(log)) <= 1
    /\ \A i \in Acks(log) : log[i].cmd # <<>>
    /\ ~Complete(cmd) => Acks(log) = {}
    /\ (Returned /\ Complete(cmd)) => (Acks(log) = {} <=> LaunchFailed(log))
    /\ death = "dispatch" => Acks(log) = {}

C5_Witness ==
    /\ Returned /\ NameIs(cmd, "KeyEvent") /\ Complete(cmd)
    /\ Cardinality(Acks(log)) = 1
    /\ \E i \in Where(log, {"key"}) : ~log[i].ok

\* The action table of the command dispatch, as the specification gives it.
ActionTable(nm) ==
    CASE nm = "CloseEvent" -> <<"close">>
      [] nm = "MinimizeEvent" -> <<"activate", "minimize">>
      [] nm = "MaximizeEvent" -> <<"activate", "maximize">>
      [] nm = "RestoreEvent" -> <<"restore">>
      [] nm = "FullscreenEvent" -> <<"activate", "fullscreen">>
      [] nm = "FullscreenExitEvent" -> <<"activate", "fullscreen-exit">>
      [] nm = "PinToggleEvent" -> <<"pin-toggle">>
      [] nm = "SwitchDesktop" -> <<"switch-desktop">>

\* What was called, on which window and with which desktop argument.
Calls(l) ==
    LET ex == Events(l, CallKinds)
    IN  [i \in 1..Len(ex) |-> <<ex[i].e, ex[i].a, ex[i].w, ex[i].d>>]

ExpectedCalls(c, nm) ==
    [i \in 1..Len(ActionTable(nm)) |->
        IF nm = "SwitchDesktop"
        THEN <<"act", "switch-desktop", Null, StrOf(c.desktop_index)>>
        ELSE <<"act", ActionTable(nm)[i], c.window_id, "">>]

\* C6: a window command with a window id executes exactly the scripted actions of
\* its row of the table, in order, each as one Execute on that window, and
\* SwitchDesktop(index) executes exactly switch-desktop(index): the calls made are
\* always a prefix of the row, and the whole row once the command is acknowledged.
C6_ActionTable ==
    \A nm \in WindowCommandNames \cup {"SwitchDesktop"} :
        (NameIs(cmd, nm) /\ RequiredFields(cmd)) =>
            /\ IsPrefix(Calls(log), ExpectedCalls(cmd, nm))
            /\ HasAck(log) => Calls(log) = ExpectedCalls(cmd, nm)

C6_Witness ==
    /\ NameIs(cmd, "FullscreenExitEvent") /\ HasAck(log)
    /\ Calls(log) = <<<<"act", "activate", Str("w1"), "">>,
                      <<"act", "fullscreen-exit", Str("w1"), "">>>>

\* The acknowledgment of a dispatch that succeeded: its text is not the error text.
AckOk(ev) == ev.cmd # <<>> /\ ev.cmd[1].verb # "error: key failed"

\* C7: when a command is acknowledged, every call of its dispatch was made before
\* the acknowledgment and every scripted action had completed; and when the
\* dispatch of a successfully acknowledged command returns, a fresh acquisition was
\* attempted after the acknowledgment, followed by a state frame unless the
\* acquisition failed or the connection was closed.
C7_ActionsAckPush ==
    HasAck(log) =>
        LET i == AckAt(log)
        IN  /\ \A j \in Where(log, CallKinds) :
                    j < i /\ (log[j].e = "act" => log[j].ok)
            /\ (Returned /\ AckOk(log[i])) =>
                    /\ Len(log) \in {i + 1, i + 2} /\ log[i + 1].e = "acq"
                    /\ Len(log) = i + 2 => (log[i + 1].ok /\ log[i + 2].e = "state")
                    /\ (Len(log) = i + 1 /\ log[i + 1].ok) => conn = "closed"

C7_Witness ==
    /\ Returned /\ NameIs(cmd, "MinimizeEvent") /\ HasAck(log)
    /\ Len(log) = AckAt(log) + 2 /\ log[Len(log)].e = "state"

\* C8: a message is read only when no dispatch is in progress: every step that reads
\* a message (it replaces the message or clears the log of the dispatch before)
\* starts where handle_command has returned, its forced push included, with no
\* call left to make.
C8_NoInterleaving ==
    [][(msg' # msg \/ (log # <<>> /\ log' = <<>>)) => (rpc = "read" /\ todo = <<>>)]_vars

\* A dispatch went through its acknowledgment and its forced push, and the
\* receiver is back at the read of the next message on an open connection.
C8_Witness ==
    /\ Returned /\ conn = "open" /\ HasAck(log)
    /\ log[Len(log)].e = "state"

\* MoveWindow with a decimal target monitor found that the window has to change
\* monitor (the first acquisition succeeded).
MonitorMoveNeeded ==
    /\ NameIs(cmd, "MoveWindow") /\ Complete(cmd)
    /\ Truthy(cmd.target_monitor) /\ IsDigit(cmd.target_monitor)
    /\ Len(log) >= 1 /\ log[1].e = "acq" /\ log[1].ok
    /\ loc.pre.on # IntOf(cmd.target_monitor)

MoveMonitorCalls(l) == {i \in Where(l, {"act"}) : l[i].a = "move-monitor"}

\* The shortcut protocol of MoveWindow for the candidate screens cand.
ShortcutProtocol(cand) ==
    LET sc == Events(log, {"sc"})
        failed == \A i \in 1..Len(sc) : ~sc[i].ok
        last == IF Len(sc) = 0 THEN 2 ELSE 2 + Len(sc)
    IN  \* the candidates are invoked in order, right after the activation,
        /\ IsPrefix([i \in 1..Len(sc) |-> <<sc[i].a, sc[i].n>>],
                    [i \in 1..Len(cand) |-> <<"Window to Screen", cand[i]>>])
        /\ Len(log) >= 3 => (Len(sc) >= 1 /\ log[3].e = "sc")
        \* the next one only when the one before failed,
        /\ \A i \in 1..Len(sc) - 1 : ~sc[i].ok
        \* the explicit move-monitor exactly when none succeeded,
        /\ MoveMonitorCalls(log) # {} => (Len(sc) = Len(cand) /\ failed)
        /\ (Len(sc) = Len(cand) /\ failed /\ Len(log) > last) =>
                MoveMonitorCalls(log) = {last + 1}
        \* and a failing shortcut leaves the dispatch running.
        /\ (Len(log) = last /\ Len(sc) >= 1 /\ ~sc[Len(sc)].ok) => rpc = "run"

\* C9 as stated: with a numeric target monitor n the shortcut for screen n - 1 is
\* invoked first and the one for screen n only if the first failed; move-monitor is
\* executed iff no shortcut succeeded; a failing shortcut never aborts the command.
C9_ShortcutsThenFallback ==
    MonitorMoveNeeded =>
        ShortcutProtocol(<<IntOf(cmd.target_monitor) - 1, IntOf(cmd.target_monitor)>>)

\* C9, amended: as stated for n >= 1; for n = 0 the shortcut for screen 0 is the
\* only one invoked.
C9_ShortcutsFromScreenZero ==
    MonitorMoveNeeded =>
        LET n == IntOf(cmd.target_monitor)
        IN  ShortcutProtocol(IF n >= 1 THEN <<n - 1, n>> ELSE <<n>>)

C9_Witness ==
    /\ MonitorMoveNeeded /\ HasAck(log)
    /\ LET sc == Events(log, {"sc"})
       IN  Len(sc) = 2 /\ sc[1].n = 1 /\ ~sc[1].ok /\ sc[2].n = 2 /\ sc[2].ok

PinToggleCalls(l) == {i \in Where(l, {"act"}) : l[i].a = "pin-toggle"}

\* C10: in an acknowledged MoveWindow whose target monitor is a number or a numeric
\* string, pin-toggle is executed iff in the snapshot before the move the target
\* monitor hosts a window, all its windows are pinned, and the moved window is not
\* pinned; it comes right after move-desktop and right before the final activate.
C10_PinToggleOnNumericTarget ==
    (NameIs(cmd, "MoveWindow") /\ IntOk(cmd.target_monitor) /\ HasAck(log)) =>
        /\ PinToggleCalls(log) # {} <=>
              (loc.pre.hosted /\ loc.pre.allPinned /\ loc.pre.found /\ ~loc.pre.pinned)
        /\ \A i \in PinToggleCalls(log) :
              /\ log[i - 1].e = "act" /\ log[i - 1].a = "move-desktop"
              /\ log[i + 1].e = "act" /\ log[i + 1].a = "activate"

FullscreenCalls(l) == {i \in Where(l, {"act"}) : l[i].a = "fullscreen"}

\* Where the second acquisition of MoveWindow stands in the log.
PostAcqAt(l) ==
    CHOOSE i \in Where(l, {"acq"}) : i > 1 /\ \A j \in Where(l, {"acq"}) : j > 1 => i <= j

\* C11: in MoveWindow the second snapshot is built right after the final activate;
\* fullscreen is executed again, on the window, iff that snapshot shows the window
\* fullscreen; it is then the next call, the last scripted action before the
\* acknowledgment and the last entry of its trace, and otherwise the trace has no
\* fullscreen entry.
C11_FullscreenReasserted ==
    (NameIs(cmd, "MoveWindow") /\ loc.post.taken) =>
        LET k == PostAcqAt(log)
            tr == IF HasAck(log) THEN log[AckAt(log)].cmd ELSE <<>>
        IN  /\ log[k - 1].e = "act" /\ log[k - 1].a = "activate"
            /\ FullscreenCalls(log) \subseteq {k + 1}
            /\ \A i \in FullscreenCalls(log) : log[i].w = cmd.window_id
            /\ Len(log) > k => (k + 1 \in FullscreenCalls(log) <=> loc.post.fs)
            /\ HasAck(log) =>
                /\ AckAt(log) = (IF loc.post.fs THEN k + 2 ELSE k + 1)
                /\ tr[Len(tr)].verb = "fullscreen" <=> loc.post.fs
                /\ loc.post.fs => \A i \in 1..Len(tr) - 1 : tr[i].verb # "fullscreen"
                /\ ~loc.post.fs => \A i \in 1..Len(tr) : tr[i].verb # "fullscreen"

C11_Witness ==
    /\ NameIs(cmd, "MoveWindow") /\ loc.post.taken /\ loc.post.fs
    /\ HasAck(log) /\ log[AckAt(log) - 1].a = "fullscreen"

\* C12: the process a LaunchApp spawns has no argument that starts with '%' (its
\* arguments are the words the sanitizer keeps of the exec specification), and
\* LaunchApp makes no scripted call.
C12_LaunchSanitized ==
    NameIs(cmd, "LaunchApp") =>
        /\ \A i \in Where(log, {"launch"}) :
              log[i].ok =>
                /\ \A k \in 1..Len(log[i].args) : ~StartsWithPercent(log[i].args[k])
                /\ log[i].args = sanitize_exec_command(StrOf(cmd.exec_cmd))
        /\ Where(log, {"act", "sc"}) = {}

\* C13: MoveWindow resolves the window's current monitor, pinned state and
\* fullscreen state by the canonical form of the handle: what its lookups return
\* for the command's windowId is what the snapshots hold for the window with that
\* canonical handle.
C13_CanonicalLookups ==
    NameIs(cmd, "MoveWindow") =>
        /\ loc.canon.found =>
              /\ loc.seen.monitor = Num(loc.canon.on)
              /\ loc.seen.pinned = Bool(loc.canon.pinned)
        /\ loc.post.taken => (loc.post.fullscreen = loc.post.canonFs)

\* The command text of an acknowledgment starts with "error:".
ErrorText(ev) == ev.cmd # <<>> /\ ev.cmd[1].verb = "error: key failed"

\* C14: for a KeyEvent with a key, the key is synthesized once, after the activate
\* action on the window has completed when a windowId is given and as the first
\* call otherwise; the acknowledgment is the step after it, exactly one, with a
\* command text that starts with "error:" iff the synthesis failed; it is missing
\* only while it is still to be sent or when the connection is closed.
C14_KeyEventAck ==
    (NameIs(cmd, "KeyEvent") /\ Truthy(cmd.key)) =>
        LET keys == Where(log, {"key"})
        IN  /\ Cardinality(keys) <= 1 /\ Cardinality(Acks(log)) <= 1
            /\ \A k \in keys :
                  /\ log[k].a = StrOf(cmd.key)
                  /\ IF Truthy(cmd.window_id)
                     THEN /\ k = 2 /\ log[1].e = "act" /\ log[1].a = "activate"
                          /\ log[1].w = cmd.window_id /\ log[1].ok
                     ELSE k = 1
            /\ \A i \in Acks(log) :
                  /\ i - 1 \in keys
                  /\ ErrorText(log[i]) <=> ~log[i - 1].ok
            /\ (keys # {} /\ Acks(log) = {}) =>
                  \/ rpc = "run" /\ todo = <<AckStep>>
                  \/ conn = "closed" /\ death = "send"

C14_Witness ==
    /\ NameIs(cmd, "KeyEvent") /\ Truthy(cmd.window_id) /\ Returned
    /\ HasAck(log) /\ ErrorText(log[AckAt(log)])

\* The index the compositor gives the screen that holds the point (cx, cy) of the
\* acquisition, if the window was found and a listed screen holds the point.
HoldingScreens(g) ==
    {i \in 1..Len(g.screens) :
        LET sc == g.screens[i]
        IN  /\ g.has
            /\ g.cx >= sc.x /\ g.cx < sc.x + sc.width
            /\ g.cy >= sc.y /\ g.cy < sc.y + sc.height}

\* The calls of an ActivateWindow, given the acquisition and how the first
\* switch-to-screen shortcut went.
ActivateOrder(g, w, firstOk) ==
    LET hs == HoldingScreens(g)
        idx == g.screens[CHOOSE i \in hs : \A j \in hs : i <= j].index
    IN  <<<<"act", "activate", w, -1>>, <<"collect", "", w, -1>>>>
        \o (IF hs = {} THEN <<>>
            ELSE <<<<"sc", "Switch to Screen", Null, idx>>>>
                 \o (IF firstOk THEN <<>> ELSE <<<<"sc", "Switch to Screen", Null, idx + 1>>>>))
        \o << <<"sc", "Activate Window Demanding Attention", Null, -1>>,
              <<"act", "clear-attention", w, -1>>,
              <<"sc", "Window Raise", Null, -1>>,
              <<"act", "activate", w, -1>> >>

\* C15: the calls of an ActivateWindow are, in order, the activate action, the
\* acquisition, the switch-to-screen shortcut for the screen that holds the centre of
\* the window and, only if that one failed, the one for the next index, the
\* attention-clear shortcut, the clear-attention action, the raise shortcut and a
\* second activate action, all before the acknowledgment; a shortcut that fails or
\* a screen that is not resolved leaves the dispatch running.
C15_ActivateOrder ==
    (NameIs(cmd, "ActivateWindow") /\ Truthy(cmd.window_id)) =>
        LET ev == Events(log, CallKinds)
            calls == [i \in 1..Len(ev) |-> <<ev[i].e, ev[i].a, ev[i].w, ev[i].n>>]
            sw == SelectSeqIdx(ev, {i \in 1..Len(ev) : ev[i].a = "Switch to Screen"}, 1)
            order == ActivateOrder(loc.geo, cmd.window_id, Len(sw) >= 1 /\ sw[1].ok)
        IN  /\ IsPrefix(calls, IF Len(ev) >= 2 /\ ev[2].ok THEN order
                                ELSE SubSeq(order, 1, 2))
            /\ HasAck(log) => (calls = order /\ AckAt(log) = Len(order) + 1)
            /\ (log # <<>> /\ log[Len(log)].e = "sc") => (rpc = "run" /\ death = "")

C15_Witness ==
    /\ NameIs(cmd, "ActivateWindow") /\ HasAck(log)
    /\ LET sw == Where(log, {"sc"})
       IN  /\ \E i \in sw : log[i].a = "Switch to Screen" /\ log[i].n = 1 /\ ~log[i].ok
           /\ \E i \in sw : log[i].a = "Switch to Screen" /\ log[i].n = 2 /\ log[i].ok
           /\ \E i \in sw : log[i].a = "Window Raise" /\ ~log[i].ok

\* The field a command with a known name lacks, if any: no window id for a window
\* command, no exec for LaunchApp, no key for KeyEvent, no desktop index for
\* SwitchDesktop, no window id or no target desktop for MoveWindow.
Incomplete(c) ==
    \/ NameIs(c, "LaunchApp") /\ ~Truthy(c.exec_cmd)
    \/ NameIs(c, "KeyEvent") /\ ~Truthy(c.key)
    \/ NameIs(c, "SwitchDesktop") /\ ~Truthy(c.desktop_index)
    \/ NameIs(c, "MoveWindow") /\ (~Truthy(c.window_id) \/ ~Truthy(c.target_desktop))
    \/ /\ \E nm \in WindowCommandNames \cup {"ActivateWindow"} : NameIs(c, nm)
       /\ ~Truthy(c.window_id)

\* C16: a command with a known name that lacks a required field is dropped: no
\* scripted action or other call is made for it, no acknowledgment and no state
\* frame is sent, and the receiver goes on reading without an error.
C16_IncompleteDropped ==
    (loc.entered /\ Incomplete(cmd)) =>
        /\ log = <<>> /\ todo = <<>>
        /\ rpc \in {"read", "dead"}
        /\ death \in {"", "closed"}

C16_Witness ==
    /\ loc.entered /\ NameIs(cmd, "MoveWindow")
    /\ Truthy(cmd.window_id) /\ ~Truthy(cmd.target_desktop)
    /\ rpc = "read" /\ log = <<>>

\* A JSON value that is a text with at least one character.
HasText(v) == v.t = "str" /\ v.s # ""

\* C17: a message that is a JSON object reaches handle_command exactly when its
\* type is "command" or its payload has a non-empty name and a non-empty windowId
\* or id; no other message reaches it.
C17_CommandIffDiscriminatorOrHandle ==
    msg.kind # "none" =>
        IF msg.kind = "object"
        THEN loc.entered <=>
                \/ msg.type = Str("command")
                \/ HasText(msg.name) /\ (HasText(msg.windowId) \/ HasText(msg.id))
        ELSE ~loc.entered

\* ---------------------------------------------------------------------------
\* Reading a log collection: its attempts so far, in order.
\* ---------------------------------------------------------------------------
\* The attempts that returned lines, and those that failed.
Yielding(r) == {i \in 1..Len(r) : ~r[i].failed /\ r[i].lines # <<>>}

Failing(r) == {i \in 1..Len(r) : r[i].failed}

\* The collection is over and handed lines back.
CollReturned == coll.pc \in {"returned", "built"}

\* Every candidate has had all its attempts.
AllAttempted == coll.pc # "off" /\ Len(coll.reads) = 3 * Len(coll.services)

\* C18: the i-th attempt reads the candidate at position ceil(i / 3), so the
\* candidates are read in list order, three attempts each, at most three times
\* their number in all; only the last attempt so far can have returned lines, and
\* when it has, the collection has returned that service and those lines; when
\* every candidate has had its attempts the collection is over.
C18_CandidatesInOrder ==
    LET r == coll.reads
    IN  /\ Len(r) <= 3 * Len(coll.services)
        /\ \A i \in 1..Len(r) : r[i].service = coll.services[((i - 1) \div 3) + 1]
        /\ \A i \in Yielding(r) :
            /\ i = Len(r)
            /\ CollReturned
            /\ coll.service = r[i].service /\ coll.lines = r[i].lines
        /\ AllAttempted => coll.pc # "loop"

C18_Witness ==
    /\ coll.pc = "returned" /\ Len(coll.services) = 4 /\ Len(coll.reads) = 5
    /\ Yielding(coll.reads) = {5} /\ Failing(coll.reads) = {2}
    /\ coll.service = coll.services[2] /\ coll.service = "plasma-kwin_wayland.service"

\* C19: when every attempt on every candidate has returned no line and none has
\* failed, the collection returns the first candidate and no line, raises nothing,
\* and the snapshot built from it names that candidate and has no monitor.
C19_NothingRead ==
    (AllAttempted /\ Yielding(coll.reads) = {} /\ Failing(coll.reads) = {}) =>
        /\ CollReturned /\ coll.err = 0
        /\ coll.service = coll.services[1] /\ coll.lines = <<>>
        /\ coll.pc = "built" => (payload.monitors = <<>> /\ payload.service = coll.services[1])

C19_Witness ==
    /\ coll.pc = "built" /\ Len(coll.services) = 4 /\ Len(coll.reads) = 12
    /\ Yielding(coll.reads) = {} /\ Failing(coll.reads) = {}
    /\ payload.monitors = <<>> /\ payload.service = "kwin_x11.service"

\* C20: an attempt that fails leaves the collection running while attempts are
\* left; an error is raised only when every candidate has had all its attempts and
\* none returned lines, and it is the failure of the latest failed attempt; once an
\* attempt has returned lines nothing is raised, whatever failed before.
C20_FailuresDeferred ==
    LET r == coll.reads
    IN  /\ (r # <<>> /\ r[Len(r)].failed /\ ~AllAttempted) =>
                (coll.pc = "loop" /\ coll.err = 0)
        /\ coll.pc = "raised" =>
                /\ AllAttempted /\ Yielding(r) = {} /\ Failing(r) # {}
                /\ coll.err \in Failing(r) /\ \A i \in Failing(r) : i <= coll.err
        /\ coll.pc # "raised" => coll.err = 0
        /\ Yielding(r) # {} => (CollReturned /\ coll.err = 0)

C20_Witness ==
    /\ coll.pc = "raised" /\ Len(coll.services) = 4
    /\ Failing(coll.reads) = {1, 7} /\ coll.err = 7

\* ---------------------------------------------------------------------------
\* Reading a run of a program.
\* ---------------------------------------------------------------------------
ExecuteOver == exe.pc \in {"returned", "raised"}

\* C21: the calls of a run are load, start, unload in that order, load and unload
\* under the run's id and load with the run's file; a call that failed is the last
\* call of the run, and the run then raises; a run returns only after the three
\* calls; the file is there at every call and is removed when the run is over,
\* whether it returned or raised.
C21_LoadStartUnload ==
    LET c == exe.calls
    IN  /\ Len(c) <= 3
        /\ \A i \in 1..Len(c) :
            /\ c[i].op = <<"load", "start", "unload">>[i]
            /\ c[i].op \in {"load", "unload"} => c[i].id = exe.id
            /\ c[i].op = "load" => c[i].path = exe.path
            /\ ~c[i].ok => (i = Len(c) /\ exe.pc # "returned")
        /\ exe.pc = "returned" => Len(c) = 3
        /\ (c # <<>> /\ ~ExecuteOver) => exe.file = "present"
        /\ ExecuteOver => exe.file = "removed"
        /\ (ExecuteOver /\ \E i \in 1..Len(c) : ~c[i].ok) => exe.pc = "raised"

C21_Witness ==
    /\ exe.pc = "raised" /\ exe.file = "removed"
    /\ Len(exe.calls) = 2 /\ exe.calls[1].ok /\ ~exe.calls[2].ok

\* ---------------------------------------------------------------------------
\* Reading a lookup.
\* ---------------------------------------------------------------------------
\* The records whose canonical first or second handle is the canonical target.
HandleMatches(ws, t) ==
    {i \in 1..Len(ws) :
        \/ normalize_winid(ws[i].internalId) = normalize_winid(StrOf(t))
        \/ normalize_winid(ws[i].windowId) = normalize_winid(StrOf(t))}

\* C22: the lookup returns the first record in list order whose canonical
\* internalId or canonical windowId is the canonical target, and no record when
\* there is none or when the target is absent or its canonical form is empty; no
\* other field of a record makes it match.
C22_FirstByEitherHandle ==
    (fn.op = "find_window_for_id" /\ fn.done) =>
        LET m == HandleMatches(fn.windows, fn.target)
            empty == fn.target = Null \/ normalize_winid(StrOf(fn.target)) = ""
        IN  IF empty \/ m = {} THEN fn.out = <<>>
            ELSE fn.out = <<fn.windows[CHOOSE i \in m : \A j \in m : i <= j]>>

\* ---------------------------------------------------------------------------
\* Reading a canonicalization.
\* ---------------------------------------------------------------------------
RECURSIVE Trimmed(_)
\* A text without its surrounding blanks.
Trimmed(cs) ==
    IF cs # <<>> /\ Head(cs) = " " THEN Trimmed(Tail(cs))
    ELSE IF cs # <<>> /\ cs[Len(cs)] = " " THEN Trimmed(SubSeq(cs, 1, Len(cs) - 1))
    ELSE cs

\* A text without its one enclosing brace pair, if it has one.
Unbraced(cs) ==
    IF Len(cs) >= 2 /\ Head(cs) = "{" /\ cs[Len(cs)] = "}"
    THEN SubSeq(cs, 2, Len(cs) - 1) ELSE cs

\* C23: the canonical form of a text is the text trimmed of surrounding blanks,
\* in lower case, without one leading '{' and one trailing '}' when it has both,
\* and nothing else is removed; an absent or empty text gives the empty text.
C23_CanonicalForm ==
    (fn.op = "normalize_winid" /\ fn.done) =>
        fn.out = IF fn.absent THEN <<>> ELSE Unbraced(Lower(Trimmed(fn.text)))

\* ---------------------------------------------------------------------------
\* Reading a built snapshot against the records it was built from.
\* ---------------------------------------------------------------------------
Built == fn.op = "build_payload" /\ fn.done

\* The (monitor, desktop) pairs of the snapshot.
Cells ==
    {c \in (1..Len(fn.out.monitors)) \X (1..2) :
        c[2] <= Len(fn.out.monitors[c[1]].desktops)}

\* The window list of a cell, and the name of its desktop.
Shown(c) == fn.out.monitors[c[1]].desktops[c[2]].windows

CellDesktop(c) == fn.out.monitors[c[1]].desktops[c[2]].desktop_name

\* The input records on the monitor of a cell that are pinned or list its desktop.
Qualifying(c) ==
    {k \in 1..Len(fn.windows) :
        /\ <<fn.windows[k].output.name>> = fn.out.monitors[c[1]].monitor_name
        /\ \/ fn.windows[k].onAllDesktops = TRUE
           \/ \E n \in 1..Len(fn.windows[k].desktops) :
                fn.windows[k].desktops[n] = CellDesktop(c)}

\* Entry a sorts strictly before entry b: a pid before no pid, then the smaller
\* pid, then the smaller handle.
EntryBefore(a, b) ==
    IF (a.pid = Null) # (b.pid = Null) THEN b.pid = Null
    ELSE IF a.pid # Null /\ a.pid.n # b.pid.n THEN a.pid.n < b.pid.n
    ELSE StrRank(a.id) < StrRank(b.id)

\* C24: in every window list of the snapshot the handles are pairwise different,
\* each entry carries the fields of the first input record of its monitor and
\* desktop with that handle, and the entries stand in the order (no pid last, pid
\* ascending, handle ascending).
C24_UniqueFirstSorted ==
    Built =>
        \A c \in Cells :
            LET e == Shown(c)
            IN  /\ \A i, j \in 1..Len(e) : i # j => e[i].id # e[j].id
                /\ \A i \in 1..Len(e) :
                    LET same == {k \in Qualifying(c) : fn.windows[k].windowId = e[i].id}
                    IN  /\ same # {}
                        /\ LET r == fn.windows[CHOOSE k \in same : \A l \in same : k <= l]
                           IN  /\ e[i].caption = r.caption /\ e[i].pid = r.pid
                               /\ e[i].on_all_desktops = r.onAllDesktops
                /\ \A i \in 1..(Len(e) - 1) : EntryBefore(e[i], e[i + 1])

C24_Witness ==
    /\ Built /\ Len(fn.windows) = 2 /\ fn.meta = BuildMeta
    /\ fn.windows[1].windowId = "w1" /\ fn.windows[2].windowId = "w1"
    /\ fn.windows[1].pid = Num(2) /\ fn.windows[2].pid = Num(1)
    /\ Len(Shown(<<1, 1>>)) = 1 /\ Shown(<<1, 1>>)[1].caption = "first"

\* C25: the handles in the window list of a monitor's desktop are exactly the
\* handles of the records of that monitor that are pinned or list that desktop.
C25_PinnedOrListed ==
    Built =>
        \A c \in Cells :
            {Shown(c)[i].id : i \in 1..Len(Shown(c))}
                = {fn.windows[k].windowId : k \in Qualifying(c)} \ {""}

C25_Witness ==
    /\ Built /\ Len(fn.out.monitors) = 2 /\ Cells = (1..2) \X (1..2)
    /\ Len(fn.windows) = 2
    /\ fn.windows[1].onAllDesktops /\ ~fn.windows[2].onAllDesktops
    /\ {Shown(<<1, 1>>)[i].id : i \in 1..Len(Shown(<<1, 1>>))} = {"w1", "w2"}
    /\ {Shown(<<1, 2>>)[i].id : i \in 1..Len(Shown(<<1, 2>>))} = {fn.windows[1].windowId}
    /\ Shown(<<2, 1>>) = <<>> /\ Shown(<<2, 2>>) = <<>>

\* The sort key of a monitor: (y, x), a missing coordinate counting as 0.
MonitorKey(mon) ==
    <<IF mon.monitor_y = Null THEN 0 ELSE mon.monitor_y.n,
      IF mon.monitor_x = Null THEN 0 ELSE mon.monitor_x.n>>

\* The place of a monitor's output in the meta line's output list.
InputPlace(mon) ==
    CHOOSE k \in 1..Len(fn.meta.outputs) : <<fn.meta.outputs[k].name>> = mon.monitor_name

\* C26: the monitors carry the ids 1..N in list order, there is one for each
\* output, they stand in ascending order of (y, x) with a missing coordinate as 0,
\* and monitors with the same (y, x) stand in the order of their outputs.
C26_MonitorIds ==
    Built =>
        LET ms == fn.out.monitors
        IN  /\ \A i \in 1..Len(ms) : ms[i].monitor_id = i
            /\ fn.meta.outputs # <<>> =>
                /\ Len(ms) = Len(fn.meta.outputs)
                /\ {ms[i].monitor_name : i \in 1..Len(ms)}
                     = {<<fn.meta.outputs[k].name>> : k \in 1..Len(fn.meta.outputs)}
                /\ \A i, j \in 1..Len(ms) : i < j =>
                    LET a == MonitorKey(ms[i])
                        b == MonitorKey(ms[j])
                    IN  \/ a[1] < b[1]
                        \/ a[1] = b[1] /\ a[2] < b[2]
                        \/ a = b /\ InputPlace(ms[i]) < InputPlace(ms[j])

C26_Witness ==
    /\ Built /\ Len(fn.out.monitors) = 3
    /\ [i \in 1..3 |-> fn.out.monitors[i].monitor_name] = <<<<"DP-2">>, <<"DP-3">>, <<"DP-1">>>>
    /\ fn.out.monitors[1].monitor_x = Null /\ fn.out.monitors[2].monitor_x = Num(0)
    /\ fn.out.monitors[3].monitor_y = Null /\ fn.out.monitors[3].monitor_x = Num(1920)

\* C27: two builds from the same service, meta record and window list give the
\* same snapshot, field for field, and so the same serialized text.
C27_BuildDeterministic ==
    (fn.op = "build_payload twice" /\ Len(fn.outs) = 2) =>
        /\ fn.outs[1] = fn.outs[2]
        /\ PayloadKey(fn.outs[1]) = PayloadKey(fn.outs[2])

\* ---------------------------------------------------------------------------
\* Reading a parse against its lines.
\* ---------------------------------------------------------------------------
Parsed == fn.op = "parse_json_lines" /\ fn.done

\* The line starts with '{' and ends with '}' once its surrounding blanks are
\* gone, and its text decodes.
Usable(ln) ==
    LET h == Trimmed(ln.head)
        t == Trimmed(ln.tail)
    IN  /\ h # <<>> /\ h[1] = "{"
        /\ t # <<>> /\ t[Len(t)] = "}"
        /\ ln.decoded.ok

UsableLines == {i \in 1..Len(fn.lines) : Usable(fn.lines[i])}

MetaLines == {i \in UsableLines : fn.lines[i].decoded.type = "meta"}

\* C28: the parser raises on no list of lines, and a line that is not in braces
\* once trimmed, or that does not decode, leaves no trace: its object is neither
\* the meta record nor in the window list, and the result is the one of the list
\* without such lines.
C28_BadLinesSkipped ==
    Parsed =>
        /\ ~fn.out.raised
        /\ \A i \in (1..Len(fn.lines)) \ UsableLines :
            fn.lines[i].decoded.ok =>
                /\ fn.out.meta # fn.lines[i].decoded.obj
                /\ \A k \in 1..Len(fn.out.windows) :
                        fn.out.windows[k] # fn.lines[i].decoded.obj
        /\ Len(fn.out.windows) = Cardinality(UsableLines \ MetaLines)
        /\ MetaLines = {} => fn.out.meta = EmptyMeta

C28_Witness ==
    /\ Parsed /\ Len(fn.lines) = 3 /\ ~fn.out.raised
    /\ fn.lines[1].head = <<"{">> /\ fn.lines[1].tail = <<"}">> /\ ~fn.lines[1].decoded.ok
    /\ fn.lines[2].tail = <<"}", "n">> /\ fn.lines[2].decoded.type = "meta"
    /\ fn.lines[3].head = <<" ", "{">> /\ fn.lines[3].decoded.type = "window"
    /\ fn.out.meta = EmptyMeta /\ Len(fn.out.windows) = 1

\* C29: the meta record is the object of the last usable line that carries the
\* meta marker, and the window list is the objects of the other usable lines, in
\* the order of their lines; no meta object is in the window list.
C29_LastMetaOthersInOrder ==
    Parsed =>
        LET others == SelectSeqIdx(fn.lines, UsableLines \ MetaLines, 1)
        IN  /\ MetaLines # {} =>
                fn.out.meta
                  = fn.lines[CHOOSE i \in MetaLines : \A j \in MetaLines : j <= i].decoded.obj
            /\ fn.out.windows = [k \in 1..Len(others) |-> others[k].decoded.obj]
            /\ \A i \in MetaLines : \A k \in 1..Len(fn.out.windows) :
                    fn.out.windows[k] # fn.lines[i].decoded.obj

C29_Witness ==
    /\ Parsed /\ Len(fn.lines) = 3 /\ UsableLines = 1..3 /\ MetaLines = {1, 3}
    /\ fn.out.meta.activeDesktopName = "third"
    /\ Len(fn.out.windows) = 1 /\ fn.out.windows[1].caption = "second"

\* ---------------------------------------------------------------------------
\* Reading an acquisition against the journal.
\* ---------------------------------------------------------------------------
\* The lines the acquisition's own program run printed.
OwnLines ==
    LET own == SelectSeqIdx(jrn.entries, {i \in 1..Len(jrn.entries) :
                                             jrn.entries[i].run = jrn.run}, 1)
    IN  [i \in 1..Len(own) |-> own[i].line]

\* C30: every line a snapshot is built from was printed by the program run of its
\* own acquisition, and the monitors of the snapshot are those built from these
\* lines alone.
C30_OwnLinesOnly ==
    jrn.pc = "built" =>
        /\ \A i \in 1..Len(jrn.read) : jrn.read[i].run = jrn.run
        /\ payload.monitors
             = build_monitors(parse_json_lines(OwnLines).meta,
                              parse_json_lines(OwnLines).windows)

\* ---------------------------------------------------------------------------
\* Reading a failed dispatch.
\* ---------------------------------------------------------------------------
\* A scripted action or a snapshot acquisition of the dispatch itself (one before
\* the acknowledgment; the forced push comes after it) has raised.
DispatchFailed(l) ==
    \E i \in Where(l, {"act", "acq", "collect"}) :
        ~l[i].ok /\ \A j \in 1..i : l[j].e # "ack"

\* C31: when a scripted action or a snapshot acquisition of a dispatch raises, no
\* acknowledgment is sent for that command and the receive activity is not ended
\* by it: it goes on reading the later commands.
C31_FailureConfined ==
    DispatchFailed(log) => ~HasAck(log) /\ death # "dispatch"

\* ---------------------------------------------------------------------------
\* Reading a MoveWindow to a named output.
\* ---------------------------------------------------------------------------
\* MoveWindow whose target monitor is a text that is no number, for a window the
\* first snapshot of the dispatch shows on a monitor.
NamedTarget ==
    /\ NameIs(cmd, "MoveWindow") /\ Complete(cmd)
    /\ Truthy(cmd.target_monitor) /\ ~IntOk(cmd.target_monitor)
    /\ Len(log) >= 1 /\ log[1].e = "acq" /\ log[1].ok
    /\ loc.seen.monitor.t # "null"

\* C32: a MoveWindow to an output name for a window of the current snapshot invokes
\* no screen-move shortcut, does not fail unless one of its calls fails, and is
\* acknowledged after the explicit move-monitor with that name, then move-desktop
\* and activate.
C32_NamedMonitorMove ==
    NamedTarget =>
        /\ Where(log, {"sc"}) = {}
        /\ (\A i \in Where(log, {"act", "acq"}) : log[i].ok) => death # "dispatch"
        /\ HasAck(log) =>
              \E i \in MoveMonitorCalls(log) :
                  /\ log[i].m = StrOf(cmd.target_monitor)
                  /\ \E j \in Where(log, {"act"}) : j > i /\ log[j].a = "move-desktop"

\* ---------------------------------------------------------------------------
\* Reading the last-sent marker.
\* ---------------------------------------------------------------------------
\* C33: the marker changes only in a step of the push activity in which its
\* periodic send returns without error, and then to the serialization of the
\* snapshot that was sent; a failing send and every step of the receive
\* activity, the forced push included, leave it as it is.
C33_MarkerPushOwned ==
    [][ /\ last_payload_key' # last_payload_key =>
              /\ ppc = "send_wait" /\ ppc' = "sleep" /\ poll.sent
              /\ last_payload_key' = PayloadKey(payload) /\ payload' = payload
              /\ UNCHANGED RecvVars
        /\ (ppc = "send_wait" /\ ppc' = "done") => last_payload_key' = last_payload_key
        /\ <<rpc, todo, log>>' # <<rpc, todo, log>> /\ ppc' = ppc =>
              last_payload_key' = last_payload_key ]_vars

\* The marker holds the snapshot sent last while the forced push of a command has
\* sent a state frame of its own.
C33_Witness ==
    /\ last_payload_key # <<>> /\ last_payload_key = PayloadKey(payload)
    /\ rpc = "push_wait" /\ log # <<>> /\ log[Len(log)].e = "state"

\* ---------------------------------------------------------------------------
\* Reading the push activity against a dispatch.
\* ---------------------------------------------------------------------------
\* C34: every step of the push activity (a poll with its acquisition, the start or
\* the end of a send, the end of a sleep) is taken where the receive activity
\* is outside the synchronous stretch of a dispatch: it reads, it has ended, or it
\* waits for the send of the acknowledgment or of the forced state frame.
C34_PushOutsideActions ==
    [][(ppc' # ppc \/ poll'.n # poll.n \/ payload' # payload)
          => rpc \in {"read", "dead", "ack_wait", "push_wait"}]_vars

\* The push activity has woken for a poll while the acknowledgment of a command
\* with two scripted actions is being sent.
C34_Witness ==
    /\ rpc = "ack_wait" /\ ppc = "poll" /\ HasAck(log)
    /\ Cardinality(Where(log, {"act"})) = 2

\* ---------------------------------------------------------------------------
\* Reading the calls of the sessions.
\* ---------------------------------------------------------------------------
\* C35 as stated: two sessions come to have sequences of the same purpose in
\* progress at the same time, a load of one under an id lying between the load
\* and the unload of the other under that id.
C35_SequencesCollide == <>exe.collided

\* C35, amended: the sessions of one process use the same id per purpose, but no
\* call of a session is made while the sequence of another session is in
\* progress: at most one session is inside a sequence, and no sequence has a
\* load of another session under its id between its load and its unload.
C35_SequencesNeverOverlap ==
    /\ ~exe.collided
    /\ \A s \in Sessions : exe.since[s] = {}
    /\ \A s \in Sessions : exe.at[s] # "await" =>
          \A t \in Sessions \ {s} : exe.at[t] = "await"

\* Two sessions ran a whole sequence under the same id, one after the other.
C35_Witness ==
    /\ \A s \in Sessions : exe.at[s] = "await"
    /\ exe.ended[1] /\ exe.ended[2] /\ exe.id[1] = exe.id[2]

\* ---------------------------------------------------------------------------
\* Reading a canonicalization of a canonical form.
\* ---------------------------------------------------------------------------
\* C36: the canonical form of a canonical form is that canonical form.
C36_CanonicalizeIdempotent ==
    (fn.op = "normalize_winid" /\ fn.again) => fn.out2 = fn.out

====
